---- MODULE Spec2Model ----
(***************************************************************************)
(* Home Assistant Log Assistant: the log monitor (log_monitor.py) and the  *)
(* OpenAI client with its response cache (openai_client.py).               *)
(*                                                                         *)
(* The event loop is cooperative: a coroutine runs without interruption    *)
(* from one await that really suspends to the next.  One action of this    *)
(* module is one such run.  The log file belongs to another process (the   *)
(* logger), so file actions may happen between any two file system calls   *)
(* of a scan.                                                              *)
(*                                                                         *)
(* The log file is a sequence of entries; an offset counts entries.  An    *)
(* entry is a time stamp and one of a few message texts; its text is the   *)
(* character sequence the file holds for it.                               *)
(***************************************************************************)
EXTENDS Integers, Sequences, FiniteSets, TLC

VARIABLES
    file_exists,     \* os.path.exists(self.log_path)
    file,            \* the entries of the log file, in file order
    last_position,   \* LogMonitor.last_position
    issues,          \* LogMonitor.issues
    response_cache,  \* OpenAIClient.response_cache, in insertion order
    cancel_interval, \* LogMonitor.cancel_interval: "none", "set", "cancelled"
    running,         \* the coroutine that holds the event loop (0: none)
    scan,            \* the local state of each analyze_logs invocation
    call,            \* the local state of each analyze_log invocation
    bus,             \* the events the last step fired (hass.bus.async_fire)
    logged,          \* the lines the last step logged
    returned,        \* what analyze_log returned in the last step
    written,         \* how many entries the logger has written so far
    append_only,     \* the file has only been appended to so far
    handed,          \* per offset, how many scans read it (counted up to 2)
    lost,            \* per offset: 1 read by a scan that failed, 2 read again
    fresh,           \* direct analyze_log calls: distinct keys asked so far
    puts,            \* direct analyze_log calls: cache insertions so far
    odd              \* how many irregular events the run has had so far

vars == <<file_exists, file, last_position, issues, response_cache,
          cancel_interval, running, scan, call, bus, logged, returned,
          written, append_only, handed, lost, fresh, puts, odd>>

(***************************************************************************)
(* Bounds of the model.                                                    *)
(***************************************************************************)
\* the most entries the logger writes in one run of the full system
MaxFile == 2
\* the entries of the file the cap scenario starts with
CapEntries == 8
\* the entries of the file the rotation scenario starts with
OldEntries == 2
\* direct analyze_log calls: the most cache insertions of one run
MaxPuts == 52
\* the most irregular events of one run: a remote call with an attempt that
\* gives no well-formed diagnosis, a direct call begun while another is in
\* flight
MaxOdd == 1

\* the analyze_logs invocations that may be in flight together
Scans == {1, 2}

(***************************************************************************)
(* Program constants.                                                      *)
(***************************************************************************)
cache_size_limit == 50
max_retries == 3
retry_delay == 2
SnippetCap == 5
SimilarFrom == 20
SimilarTo == 100

ISSUE_ENTITY_UNAVAILABLE == "entity_unavailable"
ISSUE_AUTOMATION_ERROR == "automation_error"
ISSUE_SCRIPT_ERROR == "script_error"
ISSUE_CONFIG_ERROR == "config_error"
ISSUE_INTEGRATION_ERROR == "integration_error"
ISSUE_GENERAL_ERROR == "general_error"
EVENT_ISSUE_DETECTED == "ha_log_assistant_issue_detected"
EVENT_ASSISTANT_UPDATED == "ha_log_assistant_updated"

\* the keys of LogMonitor._issue_patterns, in the dict's insertion order
_issue_patterns ==
    <<ISSUE_ENTITY_UNAVAILABLE, ISSUE_AUTOMATION_ERROR, ISSUE_SCRIPT_ERROR,
      ISSUE_CONFIG_ERROR, ISSUE_INTEGRATION_ERROR, ISSUE_GENERAL_ERROR>>

(***************************************************************************)
(* Log text.  The messages the logger writes:                              *)
(*   U  "ERROR Entity light.kitchen is unavailable"                        *)
(*   I  "INFO Started"                                                     *)
(*   W  "WARNING Update of sensor.power is slow"                           *)
(*   V  "INFO Entity light.kitchen is unavailable"                         *)
(* An entry in the file is "2024-01-01 10:00:0<ts> <message>\n".           *)
(* A text without any time stamp is made of paragraphs, a blank line       *)
(* between two of them:                                                    *)
(*   e  "error"        E  "Error"        x  "x"                            *)
(* A paragraph is an entry with ts = -1.                                   *)
(***************************************************************************)
Messages == {"U", "I", "W"}

MsgText(m) ==
    CASE m = "U" -> <<"E","R","R","O","R"," ","E","n","t","i","t","y"," ","l","i","g","h","t",".","k","i","t","c","h","e","n"," ","i","s"," ","u","n","a","v","a","i","l","a","b","l","e">>
      [] m = "I" -> <<"I","N","F","O"," ","S","t","a","r","t","e","d">>
      [] m = "W" -> <<"W","A","R","N","I","N","G"," ","U","p","d","a","t","e"," ","o","f"," ","s","e","n","s","o","r",".","p","o","w","e","r"," ","i","s"," ","s","l","o","w">>
      [] m = "V" -> <<"I","N","F","O"," ","E","n","t","i","t","y"," ","l","i","g","h","t",".","k","i","t","c","h","e","n"," ","i","s"," ","u","n","a","v","a","i","l","a","b","l","e">>
      [] m = "e" -> <<"e","r","r","o","r">>
      [] m = "E" -> <<"E","r","r","o","r">>
      [] m = "x" -> <<"x">>
      [] OTHER -> <<>>

Digit == <<"0", "1", "2", "3", "4", "5", "6", "7", "8", "9">>

\* the 19 characters a log line starts with
StampText(ts) ==
    <<"2","0","2","4","-","0","1","-","0","1"," ","1","0",":","0","0",":","0">>
        \o <<Digit[ts + 1]>>

\* One element of log_entries: the text from one time stamp up to the next.
\* nl: the entry keeps its line end (every entry but the last of a read).
\* msg = "" is the empty string (the only element the fallback split gives
\* for an empty read).
EntryText(e) ==
    IF e.msg = "" THEN <<>>
    ELSE IF e.ts < 0 THEN MsgText(e.msg)
    ELSE StampText(e.ts) \o <<" ">> \o MsgText(e.msg)
             \o (IF e.nl THEN <<"\n">> ELSE <<>>)

EmptyEntry == [ts |-> 0, msg |-> "", nl |-> FALSE]

\* re.compile(pattern, re.IGNORECASE).search(entry), per category, for the
\* messages above (a time stamp matches no pattern)
PatternSearch(issue_type, e) ==
    CASE e.msg = "U" ->
            issue_type \in {ISSUE_ENTITY_UNAVAILABLE, ISSUE_GENERAL_ERROR}
      [] e.msg = "W" -> issue_type = ISSUE_GENERAL_ERROR
      [] e.msg = "V" -> issue_type = ISSUE_ENTITY_UNAVAILABLE
      [] e.msg \in {"e", "E"} -> issue_type = ISSUE_GENERAL_ERROR
      [] OTHER -> FALSE

\* error_pattern.findall(line) of _generate_cache_key for one entry: the
\* group of the first match on the line, the match running to the line end
ErrorWords(e) ==
    CASE e.msg = "U" -> <<"ERROR">>
      [] e.msg = "W" -> <<"WARNING">>
      [] e.msg = "e" -> <<"error">>
      [] e.msg = "E" -> <<"Error">>
      [] OTHER -> <<>>

\* entity_pattern.findall(line) of _generate_cache_key for one entry
EntityIds(e) ==
    CASE e.msg \in {"U", "V"} -> <<"light.kitchen">>
      [] e.msg = "W" -> <<"sensor.power">>
      [] OTHER -> <<>>

(***************************************************************************)
(* Python helpers.                                                         *)
(***************************************************************************)
Min(a, b) == IF a < b THEN a ELSE b
Max(a, b) == IF a > b THEN a ELSE b

\* s[a:b] for 0 <= a <= b
Slice(s, a, b) == SubSeq(s, a + 1, Min(b, Len(s)))

\* s[:n]
Take(s, n) == SubSeq(s, 1, Min(n, Len(s)))

\* s[from:], the rest of a file from an offset on
Drop(s, from) == SubSeq(s, from + 1, Len(s))

\* list.index(x), 1-based: the first place of x
Index(s, x) == CHOOSE i \in 1..Len(s) : s[i] = x /\ \A j \in 1..(i - 1) : s[j] # x

RECURSIVE Flatten(_)
Flatten(ss) == IF ss = <<>> THEN <<>> ELSE Head(ss) \o Flatten(Tail(ss))

\* "\n".join(entries) as characters
RECURSIVE JoinText(_)
JoinText(w) ==
    IF w = <<>> THEN <<>>
    ELSE IF Len(w) = 1 THEN EntryText(w[1])
    ELSE EntryText(w[1]) \o <<"\n">> \o JoinText(Tail(w))

(***************************************************************************)
(* LogMonitor: the extractor.  A candidate (a context string) is kept as   *)
(* the entries it joins; JoinText gives its characters.                    *)
(***************************************************************************)
\* a similarity that is the equality of the two strings
_is_similar_entry_whole(entry1, entry2) == entry1 = entry2

_is_similar_entry(entry1, entry2) ==
    IF Len(entry1) < SimilarFrom \/ Len(entry2) < SimilarFrom
    THEN entry1 = entry2
    ELSE Slice(entry1, SimilarFrom, SimilarTo) = Slice(entry2, SimilarFrom, SimilarTo)

\* the context of the entry at place i: log_entries.index(entry) is the
\* first place of an equal entry (it cannot fail for an element of the list)
ContextOf(log_entries, i) ==
    LET entry_index == Index(log_entries, log_entries[i])
    IN  SubSeq(log_entries, Max(1, entry_index - 2),
               Min(Len(log_entries), entry_index + 2))

RECURSIVE MatchFrom(_, _, _, _)
MatchFrom(issue_type, log_entries, i, matching_entries) ==
    IF i > Len(log_entries) THEN matching_entries
    ELSE IF ~PatternSearch(issue_type, log_entries[i])
    THEN MatchFrom(issue_type, log_entries, i + 1, matching_entries)
    ELSE LET context == ContextOf(log_entries, i)
             similar == \E k \in 1..Len(matching_entries) :
                           _is_similar_entry(JoinText(context),
                                             JoinText(matching_entries[k]))
         IN  MatchFrom(issue_type, log_entries, i + 1,
                       IF similar THEN matching_entries
                       ELSE Append(matching_entries, context))

_find_matching_entries(issue_type, log_entries) ==
    [issue_type |-> issue_type,
     log_snippets |-> MatchFrom(issue_type, log_entries, 1, <<>>)]

\* re.findall of the time stamp pattern over the text read; without any
\* entry, log_text.split('\n\n'): of the empty text, or of the paragraphs
\* of a text without time stamps
SplitEntries(new_logs) ==
    IF new_logs = <<>> THEN <<EmptyEntry>>
    ELSE [i \in 1..Len(new_logs) |->
            [ts |-> new_logs[i].ts, msg |-> new_logs[i].msg,
             nl |-> new_logs[i].ts >= 0 /\ i < Len(new_logs)]]

RECURSIVE NonEmptyResults(_)
NonEmptyResults(results) ==
    IF results = <<>> THEN <<>>
    ELSE IF Head(results).log_snippets = <<>> THEN NonEmptyResults(Tail(results))
    ELSE <<Head(results)>> \o NonEmptyResults(Tail(results))

\* an extractor that goes through the patterns from the last to the first
_identify_potential_issues_reversed(new_logs) ==
    LET log_entries == SplitEntries(new_logs)
        n == Len(_issue_patterns)
        results == [c \in 1..n |->
                      _find_matching_entries(_issue_patterns[n + 1 - c], log_entries)]
    IN  NonEmptyResults(results)

\* the dict returned, as its items in order
_identify_potential_issues(new_logs) ==
    LET log_entries == SplitEntries(new_logs)
        results == [c \in 1..Len(_issue_patterns) |->
                      _find_matching_entries(_issue_patterns[c], log_entries)]
    IN  NonEmptyResults(results)

(***************************************************************************)
(* OpenAIClient: cache key, response parsing, cache.                       *)
(***************************************************************************)
\* a key made of the error words and the entity ids alone
_generate_cache_key_no_type(log_text, issue_type) ==
    LET errors == Flatten([i \in 1..Len(log_text) |-> ErrorWords(log_text[i])])
        entities == Flatten([i \in 1..Len(log_text) |-> EntityIds(log_text[i])])
    IN  Take(errors, 2) \o Take(entities, 3)

\* "|".join(key_parts), kept as the parts: no part holds a "|", so the
\* joined strings are equal exactly when the parts are
_generate_cache_key(log_text, issue_type) ==
    LET errors == Flatten([i \in 1..Len(log_text) |-> ErrorWords(log_text[i])])
        entities == Flatten([i \in 1..Len(log_text) |-> EntityIds(log_text[i])])
    IN  <<issue_type>> \o Take(errors, 2) \o Take(entities, 3)

\* A completion body.  kind "object": it parses as a JSON object with the
\* fields given (<<>>: the field is missing); kind "garbage": json.loads
\* fails; kind "other": it parses as JSON that is no object.  A confidence
\* is [form, n]: form "int" an integer n, form "str" a string that spells
\* the integer n, form "float" a number that is no integer and that int()
\* truncates to n, form "bad" a value int() refuses.
IntConf(n) == [form |-> "int", n |-> n]
StrConf(n) == [form |-> "str", n |-> n]
FloatConf(n) == [form |-> "float", n |-> n]
BadConf == [form |-> "bad", n |-> 0]
NO_SUGGESTION == "No specific suggestion available"
FORMAT_ERROR == "Could not generate a suggestion (API response format error)"

GoodBody ==
    [kind |-> "object", suggested_fix |-> <<"Check device power">>,
     confidence |-> <<IntConf(80)>>, details |-> <<>>]
EmptyFixBody ==
    [kind |-> "object", suggested_fix |-> <<"">>,
     confidence |-> <<IntConf(80)>>, details |-> <<"">>]
GarbageBody ==
    [kind |-> "garbage", suggested_fix |-> <<>>, confidence |-> <<>>,
     details |-> <<>>]
Bodies == {GoodBody, EmptyFixBody, GarbageBody}

\* a body such as [1, 2] or 42
OtherBody ==
    [kind |-> "other", suggested_fix |-> <<>>, confidence |-> <<>>,
     details |-> <<>>]

\* _parse_response raises (a TypeError from the field checks on a value
\* that is no dict; only json.JSONDecodeError is caught)
ParseRaises(response_text) == response_text.kind = "other"

ClampConfidence(c) ==
    IF c.form = "bad" THEN IntConf(50)
    ELSE IF c.n < 0 \/ c.n > 100 THEN IntConf(Max(0, Min(100, c.n)))
    ELSE c

\* a parser that leaves a missing suggested_fix empty
_parse_response_blank_fix(response_text) ==
    IF response_text.kind = "garbage"
    THEN [suggested_fix |-> FORMAT_ERROR, confidence |-> IntConf(0), details |-> ""]
    ELSE [suggested_fix |->
              IF response_text.suggested_fix = <<>> THEN ""
              ELSE response_text.suggested_fix[1],
          confidence |->
              IF response_text.confidence = <<>> THEN IntConf(50)
              ELSE ClampConfidence(response_text.confidence[1]),
          details |->
              IF response_text.details = <<>> THEN ""
              ELSE response_text.details[1]]

\* a parser whose fallback suggests nothing
_parse_response_mute_fallback(response_text) ==
    IF response_text.kind = "garbage"
    THEN [suggested_fix |-> "", confidence |-> IntConf(0), details |-> ""]
    ELSE [suggested_fix |->
              IF response_text.suggested_fix = <<>> THEN NO_SUGGESTION
              ELSE response_text.suggested_fix[1],
          confidence |->
              IF response_text.confidence = <<>> THEN IntConf(50)
              ELSE ClampConfidence(response_text.confidence[1]),
          details |->
              IF response_text.details = <<>> THEN ""
              ELSE response_text.details[1]]

_parse_response(response_text) ==
    IF response_text.kind = "garbage"
    THEN [suggested_fix |-> FORMAT_ERROR, confidence |-> IntConf(0), details |-> ""]
    ELSE [suggested_fix |->
              IF response_text.suggested_fix = <<>> THEN NO_SUGGESTION
              ELSE response_text.suggested_fix[1],
          confidence |->
              IF response_text.confidence = <<>> THEN IntConf(50)
              ELSE ClampConfidence(response_text.confidence[1]),
          details |->
              IF response_text.details = <<>> THEN ""
              ELSE response_text.details[1]]

\* key in self.response_cache
InCache(cache, key) == \E i \in 1..Len(cache) : cache[i].key = key

\* self.response_cache[key]
CacheGet(cache, key) ==
    cache[CHOOSE i \in 1..Len(cache) : cache[i].key = key].value

CacheKeys(cache) == {cache[i].key : i \in 1..Len(cache)}

\* a dict keeps the place of a key it already holds
DictSet(cache, key, value) ==
    IF InCache(cache, key)
    THEN [i \in 1..Len(cache) |->
            IF cache[i].key = key THEN [key |-> key, value |-> value]
            ELSE cache[i]]
    ELSE Append(cache, [key |-> key, value |-> value])

\* a cache that makes room by dropping its newest entry
_update_cache_drop_newest(cache, key, value) ==
    DictSet(IF Len(cache) >= cache_size_limit
            THEN SubSeq(cache, 1, Len(cache) - 1) ELSE cache,
            key, value)

\* a cache that never evicts
_update_cache_unbounded(cache, key, value) == DictSet(cache, key, value)

_update_cache(cache, key, value) ==
    DictSet(IF Len(cache) >= cache_size_limit THEN Tail(cache) ELSE cache,
            key, value)

(***************************************************************************)
(* One analyze_logs invocation, between two suspensions.  A step works on  *)
(* a record w of what it may change: the issue store, the cache, the       *)
(* invocation's own scan and call records, and what the step fires (bus),  *)
(* logs (logged) and gets back from analyze_log (returned).                *)
(***************************************************************************)
IdleScan ==
    [pc |-> "idle", current_size |-> 0, new_logs |-> <<>>, potential |-> <<>>,
     ci |-> 0, si |-> 0, invoked |-> 0, appended |-> 0, offsets |-> {},
     done |-> <<>>]

IdleCall == [pc |-> "idle", key |-> <<>>, attempt |-> 0, waited |-> 0]

World(p) ==
    [issues |-> issues, cache |-> response_cache, scan |-> scan[p],
     call |-> call[p], bus |-> <<>>, logged |-> <<>>, returned |-> <<>>]

\* the except clause of analyze_logs: log, swallow, return
ExceptHandler(w) ==
    [w EXCEPT !.scan = IdleScan, !.call = IdleCall,
              !.logged = Append(@, "Error analyzing logs")]

\* a loop over all the snippets of a category
Capped_all(log_snippets) == log_snippets

\* log_snippets[:5]
Capped(log_snippets) == Take(log_snippets, SnippetCap)

\* the candidate the loops of analyze_logs are at
IssueTypeAt(s) == s.potential[s.ci].issue_type
SnippetAt(s) == s.potential[s.ci].log_snippets[s.si]

\* the dict appended to self.issues (detected_at and metadata left out: both
\* are derived from the clock and the snippet alone)
NewIssue(s, analysis) ==
    [issue_type |-> IssueTypeAt(s), log_snippet |-> SnippetAt(s),
     suggested_fix |-> analysis.suggested_fix,
     confidence |-> analysis.confidence, details |-> analysis.details]

\* the event _notify_new_issue fires before it awaits the service call
IssueDetected(issue) ==
    [event_type |-> EVENT_ISSUE_DETECTED, issue_type |-> issue.issue_type,
     suggested_fix |-> issue.suggested_fix, confidence |-> issue.confidence]

AssistantUpdated(n) == [event_type |-> EVENT_ASSISTANT_UPDATED, issues_count |-> n]

\* an end of the loops that fires no event
Finish_silent(w) == [w EXCEPT !.scan = IdleScan, !.call = IdleCall]

\* the end of the loops: fire the update event and return
Finish(w) ==
    [w EXCEPT !.bus = Append(@, AssistantUpdated(Len(w.issues))),
              !.scan = IdleScan, !.call = IdleCall]

\* an analyze_log that does not look into the cache
CacheLookup_none(cache, cache_key) == <<>>

\* the cache check analyze_log starts with: <<the cached value>>, or <<>>
CacheLookup(cache, cache_key) ==
    IF InCache(cache, cache_key) THEN <<CacheGet(cache, cache_key)>> ELSE <<>>

\* what analyze_logs does with the value analyze_log returned for the
\* candidate at hand; a kept issue leaves it suspended in the service call
\* of _notify_new_issue
RECURSIVE AfterAnalysis(_, _)
RECURSIVE Proceed(_)
RECURSIVE BeginAnalyze(_, _, _)

\* an analyze_logs that keeps every analysis, whatever its suggested fix
AfterAnalysis_any(w, analysis) ==
    IF analysis # <<>>
    THEN LET issue == NewIssue(w.scan, analysis[1])
         IN  [w EXCEPT !.issues = Append(@, issue),
                       !.bus = Append(@, IssueDetected(issue)),
                       !.scan.pc = "notify", !.scan.appended = @ + 1,
                       !.call = IdleCall]
    ELSE Proceed([w EXCEPT !.call = IdleCall])

AfterAnalysis(w, analysis) ==
    IF analysis # <<>> /\ analysis[1].suggested_fix # ""
    THEN LET issue == NewIssue(w.scan, analysis[1])
         IN  [w EXCEPT !.issues = Append(@, issue),
                       !.bus = Append(@, IssueDetected(issue)),
                       !.scan.pc = "notify", !.scan.appended = @ + 1,
                       !.call = IdleCall]
    ELSE Proceed([w EXCEPT !.call = IdleCall])

\* the next candidate of the loops, or their end
Proceed(w) ==
    LET s == w.scan
    IN  IF s.si < Len(Capped(s.potential[s.ci].log_snippets))
        THEN BeginAnalyze(w, s.ci, s.si + 1)
        ELSE IF s.ci < Len(s.potential)
        THEN BeginAnalyze(w, s.ci + 1, 1)
        ELSE Finish(w)

\* analyze_log up to its first suspension: a hit returns at once
BeginAnalyze(w, ci, si) ==
    LET at == [w EXCEPT !.scan.ci = ci, !.scan.si = si,
                        !.scan.invoked = @ + 1]
        cache_key == _generate_cache_key(SnippetAt(at.scan), IssueTypeAt(at.scan))
        hit == CacheLookup(w.cache, cache_key)
    IN  IF hit # <<>>
        THEN AfterAnalysis(
               [at EXCEPT !.returned = Append(@, [key |-> cache_key, value |-> hit])],
               hit)
        ELSE [at EXCEPT !.scan.pc = "analyze",
                        !.call = [pc |-> "api", key |-> cache_key,
                                  attempt |-> 0, waited |-> 0]]

\* analyze_logs from the return of _identify_potential_issues on
AfterExtraction(w, potential_issues) ==
    IF potential_issues = <<>>
    THEN [w EXCEPT !.scan = IdleScan,
                   !.logged = Append(@, "No potential issues found in logs")]
    ELSE BeginAnalyze([w EXCEPT !.scan.potential = potential_issues,
                                !.scan.new_logs = <<>>], 1, 1)

\* analyze_log returns value: to the scan that awaits it, or to a direct caller
AnalyzeReturns(w, value) ==
    LET got == [w EXCEPT !.returned = Append(@, [key |-> w.call.key, value |-> value])]
    IN  IF w.scan.pc = "analyze" THEN AfterAnalysis(got, value)
        ELSE [got EXCEPT !.call = IdleCall]

\* an analyze_log that caches every parsed response
AfterResponse_cache_all(w, response) ==
    LET parsed_response == _parse_response(response)
    IN  AnalyzeReturns(
          [w EXCEPT !.cache = _update_cache(@, w.call.key, parsed_response)],
          <<parsed_response>>)

\* analyze_log from the return of _call_openai_api with a body on
AfterResponse(w, response) ==
    LET parsed_response == _parse_response(response)
        \* the except clause of _parse_response logs the body it gave up on
        told == IF response.kind = "garbage"
                THEN [w EXCEPT !.logged =
                         Append(@, "Failed to parse OpenAI response as JSON")]
                ELSE w
        cached == IF parsed_response.suggested_fix # ""
                  THEN [told EXCEPT !.cache = _update_cache(@, w.call.key, parsed_response)]
                  ELSE told
    IN  IF ParseRaises(response)
        THEN \* the except clause of analyze_log
             AnalyzeReturns(
               [w EXCEPT !.logged = Append(@, "Error analyzing logs with OpenAI")],
               <<>>)
        ELSE AnalyzeReturns(cached, <<parsed_response>>)

\* a wait that does not grow
WaitTime_flat(attempt) == retry_delay

\* the wait before the next attempt
WaitTime(attempt) == retry_delay * (2 ^ attempt)

\* a step of invocation p leaves the world as w and the event loop free
Yield(p, w) ==
    /\ issues' = w.issues
    /\ response_cache' = w.cache
    /\ scan' = [scan EXCEPT ![p] = w.scan]
    /\ call' = [call EXCEPT ![p] = w.call]
    /\ bus' = w.bus
    /\ logged' = w.logged
    /\ returned' = w.returned
    /\ running' = 0

(***************************************************************************)
(* The state after construction.                                           *)
(***************************************************************************)
NoOutput == bus' = <<>> /\ logged' = <<>> /\ returned' = <<>>

FileVars == <<file_exists, file, written, append_only>>
DirectVars == <<fresh, puts, odd>>

InitMonitor ==
    /\ last_position = 0
    /\ issues = <<>>
    /\ response_cache = <<>>
    /\ cancel_interval = "none"
    /\ running = 0
    /\ scan = [p \in Scans |-> IdleScan]
    /\ call = [p \in Scans |-> IdleCall]
    /\ bus = <<>>
    /\ logged = <<>>
    /\ returned = <<>>
    /\ fresh = 0
    /\ puts = 0
    /\ odd = 0

Init ==
    /\ InitMonitor
    /\ file_exists \in BOOLEAN
    /\ file = <<>>
    /\ written = 0
    /\ append_only = TRUE
    /\ handed = [o \in 1..MaxFile |-> 0]
    /\ lost = [o \in 1..MaxFile |-> 0]

(***************************************************************************)
(* The logger and the file system.                                         *)
(***************************************************************************)
\* The lines the logger may write next: a message the patterns match or one
\* they do not, in the second of the line before or in the next one (the
\* seconds of a run are counted from 0, so the n-th line is of second n - 1
\* or n - 2).
FileEntries == [ts : {written, Max(written - 1, 0)}, msg : {"U", "I"}]

\* the logger writes one more line
FileAppend(e) ==
    /\ file_exists
    /\ written < MaxFile
    /\ file' = Append(file, e)
    /\ written' = written + 1
    /\ NoOutput
    /\ UNCHANGED <<file_exists, append_only, handed, lost, last_position,
                   issues, response_cache, cancel_interval, running, scan,
                   call, DirectVars>>

\* the log is rotated: a new, empty file takes the place of the old one
FileRotate ==
    /\ file_exists
    /\ file # <<>>
    /\ file' = <<>>
    /\ append_only' = FALSE
    /\ handed' = [o \in DOMAIN handed |-> 0]
    /\ lost' = [o \in DOMAIN lost |-> 0]
    /\ NoOutput
    /\ UNCHANGED <<file_exists, written, last_position, issues, response_cache,
                   cancel_interval, running, scan, call, DirectVars>>

FileDelete ==
    /\ file_exists
    /\ file_exists' = FALSE
    /\ file' = <<>>
    /\ append_only' = FALSE
    /\ handed' = [o \in DOMAIN handed |-> 0]
    /\ lost' = [o \in DOMAIN lost |-> 0]
    /\ NoOutput
    /\ UNCHANGED <<written, last_position, issues, response_cache,
                   cancel_interval, running, scan, call, DirectVars>>

FileCreate ==
    /\ ~file_exists
    /\ file_exists' = TRUE
    /\ file' = <<>>
    /\ NoOutput
    /\ UNCHANGED <<written, append_only, handed, lost, last_position,
                   issues, response_cache, cancel_interval, running, scan,
                   call, DirectVars>>

(***************************************************************************)
(* LogMonitor.                                                             *)
(***************************************************************************)
\* an initialize that leaves the cursor at the start of the file
Initialize_from_start(p) ==
    /\ cancel_interval = "none"
    /\ running = 0
    /\ p = 1
    /\ last_position' = 0
    /\ cancel_interval' = "set"
    /\ scan' = [scan EXCEPT ![p].pc = "exists"]
    /\ running' = p
    /\ NoOutput
    /\ UNCHANGED <<FileVars, handed, lost, issues, response_cache, call, DirectVars>>

\* initialize: the cursor goes to the end of the file, the interval is
\* registered, and the first analysis starts in the same task
Initialize(p) ==
    /\ cancel_interval = "none"
    /\ running = 0
    /\ p = 1
    /\ last_position' = IF file_exists THEN Len(file) ELSE last_position
    /\ cancel_interval' = "set"
    /\ scan' = [scan EXCEPT ![p].pc = "exists"]
    /\ running' = p
    /\ NoOutput
    /\ UNCHANGED <<FileVars, handed, lost, issues, response_cache, call, DirectVars>>

\* an analyze_logs in which a missing file raises
ExistsCheck_raise(p) ==
    IF file_exists
    THEN /\ scan' = [scan EXCEPT ![p].pc = "getsize"]
         /\ running' = p
         /\ logged' = <<>>
    ELSE /\ scan' = [scan EXCEPT ![p] = IdleScan]
         /\ running' = 0
         /\ logged' = <<"Error analyzing logs">>

\* analyze_logs, lines 96-102, from the state s of invocation p: the file
\* is missing, or the scan goes on to read its size
ExistsCheck(p) ==
    IF file_exists
    THEN /\ scan' = [scan EXCEPT ![p].pc = "getsize"]
         /\ running' = p
         /\ logged' = <<>>
    ELSE /\ scan' = [scan EXCEPT ![p] = IdleScan]
         /\ running' = 0
         /\ logged' = <<"Log file not found">>

\* the first analysis, called by initialize, starts
ScanExists(p) ==
    /\ running = p
    /\ scan[p].pc = "exists"
    /\ ExistsCheck(p)
    /\ bus' = <<>>
    /\ returned' = <<>>
    /\ UNCHANGED <<FileVars, handed, lost, last_position, issues, response_cache,
                   cancel_interval, call, DirectVars>>

\* a trigger that goes on firing after the interval was cancelled
TriggerGuard_ever(p) ==
    /\ cancel_interval # "none"
    /\ running = 0
    /\ scan[p].pc = "idle"
    /\ \A q \in Scans : q < p => scan[q].pc # "idle"

\* the interval fires, or the analyze_logs service is called: analyze_logs
\* starts.  Invocations are told apart by the slot p they take; a new one
\* takes the least free slot.
TriggerGuard(p) ==
    /\ cancel_interval = "set"
    /\ running = 0
    /\ scan[p].pc = "idle"
    /\ \A q \in Scans : q < p => scan[q].pc # "idle"

Trigger(p) ==
    /\ TriggerGuard(p)
    /\ ExistsCheck(p)
    /\ bus' = <<>>
    /\ returned' = <<>>
    /\ UNCHANGED <<FileVars, handed, lost, last_position, issues, response_cache,
                   cancel_interval, call, DirectVars>>

\* a rotation check that never resets the cursor
AfterRotationCheck_keep(current_size, position) == position

\* a rotation check that takes a file as long as the cursor for a new one
AfterRotationCheck_or_equal(current_size, position) ==
    IF current_size <= position THEN 0 ELSE position

\* the cursor after the rotation check of lines 108-110
AfterRotationCheck(current_size, position) ==
    IF current_size < position THEN 0 ELSE position

\* what the rotation check logs
RotationLog(current_size, position) ==
    IF current_size < position
    THEN <<"Log rotation detected, resetting position">> ELSE <<>>

\* a test that never finds the file unchanged
NothingNew_never(current_size, position) == FALSE

\* the test of line 112: nothing was written since the cursor was set
NothingNew(current_size, position) == current_size = position

\* analyze_logs, lines 105-114: the size, the rotation check, nothing new
ScanGetsize(p) ==
    /\ running = p
    /\ scan[p].pc = "getsize"
    /\ bus' = <<>>
    /\ returned' = <<>>
    /\ IF ~file_exists
       THEN \* os.path.getsize raises: the except clause
            /\ scan' = [scan EXCEPT ![p] = ExceptHandler(World(p)).scan]
            /\ logged' = ExceptHandler(World(p)).logged
            /\ running' = 0
            /\ UNCHANGED last_position
       ELSE LET current_size == Len(file)
                position == AfterRotationCheck(current_size, last_position)
            IN  /\ last_position' = position
                /\ IF NothingNew(current_size, position)
                   THEN /\ scan' = [scan EXCEPT ![p] = IdleScan]
                        /\ running' = 0
                        /\ logged' = RotationLog(current_size, last_position)
                                         \o <<"No new log entries to analyze">>
                   ELSE /\ scan' = [scan EXCEPT ![p].pc = "read",
                                                ![p].current_size = current_size]
                        /\ running' = p
                        /\ logged' = RotationLog(current_size, last_position)
    /\ UNCHANGED <<FileVars, handed, lost, issues, response_cache, cancel_interval,
                   call, DirectVars>>

\* f.seek(self.last_position); f.read(): the rest of the file as it is now
ReadFrom(f, position) == Drop(f, position)

\* the offsets a read of f from position hands to the extractor
OffsetsRead(f, position) == (position + 1)..Len(f)

\* analyze_logs, lines 116-125: read, move the cursor, start the matching
\* tasks and wait for them
ScanRead(p) ==
    /\ running = p
    /\ scan[p].pc = "read"
    /\ bus' = <<>>
    /\ returned' = <<>>
    /\ running' = 0
    /\ IF ~file_exists
       THEN \* open raises: the except clause
            /\ scan' = [scan EXCEPT ![p] = ExceptHandler(World(p)).scan]
            /\ logged' = ExceptHandler(World(p)).logged
            /\ UNCHANGED <<last_position, handed, lost>>
       ELSE /\ scan' = [scan EXCEPT ![p].pc = "gather",
                                    ![p].new_logs = ReadFrom(file, last_position),
                                    ![p].offsets =
                                        IF append_only
                                        THEN OffsetsRead(file, last_position)
                                        ELSE {}]
            /\ last_position' = scan[p].current_size
            /\ handed' = [o \in DOMAIN handed |->
                            IF append_only /\ o \in OffsetsRead(file, last_position)
                            THEN Min(handed[o] + 1, 2) ELSE handed[o]]
            /\ lost' = [o \in DOMAIN lost |->
                          IF append_only /\ o \in OffsetsRead(file, last_position)
                                         /\ lost[o] >= 1
                          THEN 2 ELSE lost[o]]
            /\ logged' = <<>>
    /\ UNCHANGED <<FileVars, issues, response_cache, cancel_interval, call,
                   DirectVars>>

\* the matching tasks are done: lines 127-145
ScanGathered(p) ==
    /\ running = 0
    /\ scan[p].pc = "gather"
    /\ Yield(p, AfterExtraction(World(p), _identify_potential_issues(scan[p].new_logs)))
    /\ UNCHANGED <<FileVars, handed, lost, last_position, cancel_interval, DirectVars>>

\* the service call of _notify_new_issue returns: on to the next candidate
NotifyDone(p) ==
    /\ running = 0
    /\ scan[p].pc = "notify"
    /\ Yield(p, Proceed(World(p)))
    /\ UNCHANGED <<FileVars, handed, lost, last_position, cancel_interval, DirectVars>>

\* the service call of _notify_new_issue raises
NotifyRaise(p) ==
    /\ running = 0
    /\ scan[p].pc = "notify"
    /\ Yield(p, ExceptHandler(World(p)))
    /\ lost' = [o \in DOMAIN lost |->
                  IF append_only /\ o \in scan[p].offsets
                  THEN Max(lost[o], 1) ELSE lost[o]]
    /\ UNCHANGED <<FileVars, handed, last_position, cancel_interval, DirectVars>>

\* a clear_issues that drops the cached diagnoses too
clear_issues_and_cache ==
    /\ running = 0
    /\ cancel_interval = "set"
    /\ issues' = <<>>
    /\ response_cache' = <<>>
    /\ bus' = <<AssistantUpdated(0)>>
    /\ logged' = <<>>
    /\ returned' = <<>>
    /\ UNCHANGED <<FileVars, handed, lost, last_position,
                   cancel_interval, running, scan, call, DirectVars>>

clear_issues ==
    /\ running = 0
    /\ cancel_interval = "set"
    /\ issues' = <<>>
    /\ bus' = <<AssistantUpdated(0)>>
    /\ logged' = <<>>
    /\ returned' = <<>>
    /\ UNCHANGED <<FileVars, handed, lost, last_position, response_cache,
                   cancel_interval, running, scan, call, DirectVars>>

(***************************************************************************)
(* OpenAIClient: the remote call of one analyze_log invocation.            *)
(***************************************************************************)
\* the invocation was made by a direct caller, not by a scan
Direct(p) == scan[p].pc = "idle"

\* a run holds at most MaxOdd irregular events
OddLeft == odd < MaxOdd
CountOdd == odd' = odd + 1

\* An attempt of call p ends irregularly: the call counts as one irregular
\* event, whatever the number of its attempts that fail.
Irregular(p) == IF call[p].attempt = 0 THEN OddLeft /\ CountOdd ELSE odd' = odd

\* the completion has a body
ApiContent(p, response) ==
    /\ running = 0
    /\ call[p].pc = "api"
    /\ IF response = GoodBody THEN odd' = odd ELSE Irregular(p)
    /\ puts' = IF Direct(p) /\ ~ParseRaises(response)
                            /\ _parse_response(response).suggested_fix # ""
               THEN puts + 1 ELSE puts
    /\ Yield(p, AfterResponse(World(p), response))
    /\ UNCHANGED <<FileVars, handed, lost, last_position, cancel_interval, fresh>>

\* the step logs one more line
Logs(w, line) == [w EXCEPT !.logged = Append(@, line)]

\* _call_openai_api gives up: its except clause logs and returns None
GivesUp(p) ==
    Yield(p, AnalyzeReturns(Logs(World(p), "Error calling OpenAI API"), <<>>))

\* an empty completion that is taken for a failed attempt and tried again
ApiEmpty_retry(p) ==
    /\ running = 0
    /\ call[p].pc = "api"
    /\ call[p].attempt < max_retries - 1
    /\ Irregular(p)
    /\ call' = [call EXCEPT ![p].pc = "sleep",
                            ![p].waited = @ + WaitTime(call[p].attempt)]
    /\ NoOutput
    /\ UNCHANGED <<issues, response_cache, scan, running>>
    /\ UNCHANGED <<FileVars, handed, lost, last_position, cancel_interval, fresh, puts>>

\* no choices, or an empty content: _call_openai_api returns None
ApiEmpty(p) ==
    /\ running = 0
    /\ call[p].pc = "api"
    /\ Irregular(p)
    /\ Yield(p, AnalyzeReturns(Logs(World(p), "Empty response from OpenAI API"),
                               <<>>))
    /\ UNCHANGED <<FileVars, handed, lost, last_position, cancel_interval, fresh, puts>>

\* RateLimitError, APIError or APIConnectionError: sleep and try again, or
\* give up after the last attempt (the error is caught, None is returned)
ApiRetryableError(p) ==
    /\ running = 0
    /\ call[p].pc = "api"
    /\ Irregular(p)
    /\ IF call[p].attempt < max_retries - 1
       THEN /\ call' = [call EXCEPT ![p].pc = "sleep",
                                    ![p].waited = @ + WaitTime(call[p].attempt)]
            /\ NoOutput
            /\ UNCHANGED <<issues, response_cache, scan, running>>
       ELSE GivesUp(p)
    /\ UNCHANGED <<FileVars, handed, lost, last_position, cancel_interval, fresh, puts>>

\* any other error: caught, None is returned
ApiOtherError(p) ==
    /\ running = 0
    /\ call[p].pc = "api"
    /\ Irregular(p)
    /\ GivesUp(p)
    /\ UNCHANGED <<FileVars, handed, lost, last_position, cancel_interval, fresh, puts>>

\* asyncio.sleep(wait_time) is over: the next attempt
SleepDone(p) ==
    /\ running = 0
    /\ call[p].pc = "sleep"
    /\ call' = [call EXCEPT ![p].pc = "api", ![p].attempt = @ + 1]
    /\ NoOutput
    /\ UNCHANGED <<FileVars, handed, lost, last_position, issues, response_cache,
                   cancel_interval, running, scan, DirectVars>>

Remote(p) ==
    \/ \E response \in Bodies : ApiContent(p, response)
    \/ ApiEmpty(p)
    \/ ApiRetryableError(p)
    \/ ApiOtherError(p)
    \/ SleepDone(p)

(***************************************************************************)
(* The full system.                                                        *)
(***************************************************************************)
Next ==
    \/ \E e \in FileEntries : FileAppend(e)
    \/ FileRotate
    \/ FileDelete
    \/ FileCreate
    \/ \E p \in Scans : Initialize(p)
    \/ \E p \in Scans : Trigger(p)
    \/ \E p \in Scans : ScanExists(p)
    \/ \E p \in Scans : ScanGetsize(p)
    \/ \E p \in Scans : ScanRead(p)
    \/ \E p \in Scans : ScanGathered(p)
    \/ \E p \in Scans : NotifyDone(p)
    \/ \E p \in Scans : NotifyRaise(p)
    \/ \E p \in Scans : Remote(p)
    \/ clear_issues

Spec == Init /\ [][Next]_vars

(***************************************************************************)
(* The OpenAI client alone, called directly.  Only the key derived from    *)
(* the snippet matters to the cache, so a caller is modelled as asking     *)
(* for a key; keys are numbered in the order they are first asked for.     *)
(***************************************************************************)
DirectKey(n) == <<ISSUE_GENERAL_ERROR, n>>

InFlight == Cardinality({p \in Scans : call[p].pc # "idle"})

\* The keys a caller asks for next: a new one, one another call is waiting
\* for, the oldest or the newest of the cache.
AskNext ==
    {fresh + 1}
        \cup {call[q].key[2] : q \in {r \in Scans : call[r].pc # "idle"}}
        \cup (IF response_cache = <<>> THEN {}
              ELSE {response_cache[1].key[2],
                    response_cache[Len(response_cache)].key[2]})

\* analyze_log is called for a snippet whose key is DirectKey(n)
DirectAnalyze(p, n) ==
    /\ running = 0
    /\ Direct(p)
    /\ call[p].pc = "idle"
    /\ puts + InFlight < MaxPuts
    /\ n \in AskNext
    /\ fresh' = Max(fresh, n)
    /\ IF InFlight > 0 THEN OddLeft /\ CountOdd ELSE odd' = odd
    /\ LET hit == CacheLookup(response_cache, DirectKey(n))
           w == [World(p) EXCEPT !.call = [pc |-> "api", key |-> DirectKey(n),
                                           attempt |-> 0, waited |-> 0]]
       IN  Yield(p, IF hit # <<>> THEN AnalyzeReturns(w, hit) ELSE w)
    /\ UNCHANGED <<FileVars, handed, lost, last_position, cancel_interval, puts>>

InitCache ==
    /\ InitMonitor
    /\ file_exists = FALSE
    /\ file = <<>>
    /\ written = 0
    /\ append_only = TRUE
    /\ handed = [o \in 1..MaxFile |-> 0]
    /\ lost = [o \in 1..MaxFile |-> 0]

NextCache ==
    \/ \E p \in Scans : \E n \in AskNext : DirectAnalyze(p, n)
    \/ \E p \in Scans : Remote(p)

SpecCache == InitCache /\ [][NextCache]_vars

(***************************************************************************)
(* The cap scenario: the monitor was initialized on an empty file, the     *)
(* logger has since written CapEntries lines, in turn "unavailable" errors *)
(* and warnings, one a second, and writes no more.                         *)
(***************************************************************************)
CapFile ==
    [i \in 1..CapEntries |->
        [ts |-> i - 1, msg |-> IF i % 2 = 1 THEN "U" ELSE "W"]]

InitCap ==
    /\ last_position = 0
    /\ issues = <<>>
    /\ response_cache = <<>>
    /\ cancel_interval = "set"
    /\ running = 0
    /\ scan = [p \in Scans |-> IdleScan]
    /\ call = [p \in Scans |-> IdleCall]
    /\ bus = <<>>
    /\ logged = <<>>
    /\ returned = <<>>
    /\ fresh = 0
    /\ puts = 0
    /\ odd = 0
    /\ file_exists = TRUE
    /\ file = CapFile
    /\ written = CapEntries
    /\ append_only = TRUE
    /\ handed = [o \in 1..CapEntries |-> 0]
    /\ lost = [o \in 1..CapEntries |-> 0]

NextCap ==
    \/ \E p \in Scans : Trigger(p)
    \/ \E p \in Scans : ScanGetsize(p)
    \/ \E p \in Scans : ScanRead(p)
    \/ \E p \in Scans : ScanGathered(p)
    \/ \E p \in Scans : NotifyDone(p)
    \/ \E p \in Scans : NotifyRaise(p)
    \/ \E p \in Scans : Remote(p)

SpecCap == InitCap /\ [][NextCap]_vars

(***************************************************************************)
(* The rotation scenario: the log file holds OldEntries lines of an        *)
(* earlier run when the monitor is set up; the logger goes on writing and  *)
(* the file may be rotated.                                                *)
(***************************************************************************)
OldFile == [i \in 1..OldEntries |-> [ts |-> 0, msg |-> "I"]]

InitRotate ==
    /\ InitMonitor
    /\ file_exists = TRUE
    /\ file = OldFile
    /\ written = 0
    /\ append_only = TRUE
    /\ handed = [o \in 1..(OldEntries + MaxFile) |-> 0]
    /\ lost = [o \in 1..(OldEntries + MaxFile) |-> 0]

NextRotate ==
    \/ \E e \in FileEntries : FileAppend(e)
    \/ FileRotate
    \/ \E p \in Scans : Initialize(p)
    \/ \E p \in Scans : Trigger(p)
    \/ \E p \in Scans : ScanExists(p)
    \/ \E p \in Scans : ScanGetsize(p)
    \/ \E p \in Scans : ScanRead(p)
    \/ \E p \in Scans : ScanGathered(p)
    \/ \E p \in Scans : NotifyDone(p)
    \/ \E p \in Scans : NotifyRaise(p)
    \/ \E p \in Scans : Remote(p)

SpecRotate == InitRotate /\ [][NextRotate]_vars

(***************************************************************************)
(* Properties.                                                             *)
(***************************************************************************)
Range(s) == {s[i] : i \in 1..Len(s)}

\* the step ends the cycle of invocation p in its except clause
Raised(p) ==
    /\ scan[p].pc # "idle"
    /\ scan'[p].pc = "idle"
    /\ "Error analyzing logs" \in Range(logged')

\* the step ends a cycle of invocation p that has read the file
CycleEnds(p) ==
    /\ scan[p].pc \in {"gather", "analyze", "notify"}
    /\ scan'[p].pc = "idle"

IsIssueDetected(ev) == ev.event_type = EVENT_ISSUE_DETECTED
IsUpdated(ev) == ev.event_type = EVENT_ASSISTANT_UPDATED

\* an analysis analyze_logs keeps: not None, with a suggested fix
IsDiagnosis(r) == r.value # <<>> /\ r.value[1].suggested_fix # ""

\* C1 (specification Spec).  While the file is only appended to, no offset
\* of the file is handed to the extractor by more than one scan.
C1_NoOffsetHandedTwice ==
    append_only => \A o \in DOMAIN handed : handed[o] <= 1

\* C2 (specification SpecRotate).  A scan that finds the file smaller than
\* the cursor sets the cursor to 0 before it reads: a file of size 0 ends
\* the scan, any other file is read next; nothing moves the cursor between
\* the check and the read, and the read hands out the file from the cursor
\* on, that is from offset 0.
C2_RotationResetsCursor ==
    [][\A p \in Scans :
        /\ (ScanGetsize(p) /\ file_exists /\ Len(file) < last_position)
              => /\ last_position' = 0
                 /\ scan'[p].pc = IF Len(file) = 0 THEN "idle" ELSE "read"
                 /\ scan'[p].current_size = Len(file)
        /\ (scan[p].pc = "read" /\ scan'[p].pc = "read")
              => last_position' = last_position
        /\ (ScanRead(p) /\ file_exists)
              => scan'[p].new_logs = Drop(file, last_position)
      ]_vars

\* a scan has just found a rotated file that is not empty and is about to
\* read it from offset 0
C2_Witness ==
    \E p \in Scans :
        /\ scan[p].pc = "read"
        /\ logged = <<"Log rotation detected, resetting position">>
        /\ last_position = 0
        /\ file # <<>>

\* C3 (specification Spec).  A scan that finds the size of the file equal
\* to the cursor ends at once: no candidate, no call of analyze_log, no new
\* issue, no event; cursor, issue store and cache stay as they are.
C3_NothingNewNothingDone ==
    [][\A p \in Scans :
        (ScanGetsize(p) /\ file_exists /\ Len(file) = last_position)
           => /\ scan'[p] = IdleScan
              /\ call[p] = IdleCall
              /\ call' = call
              /\ last_position' = last_position
              /\ issues' = issues
              /\ response_cache' = response_cache
              /\ handed' = handed
              /\ bus' = <<>>
              /\ returned' = <<>>
      ]_vars

\* a scan has just ended so, with a cursor, a store and a cache to keep
C3_Witness ==
    /\ logged = <<"No new log entries to analyze">>
    /\ file_exists
    /\ last_position > 0
    /\ Len(file) = last_position
    /\ issues # <<>>
    /\ response_cache # <<>>

\* The except clause: the failing cycle returns to its caller, the cursor
\* and the issue store keep their values, the event loop is free and a
\* trigger can start the next scan.
FailedCycleSwallowed ==
    \A p \in Scans :
        Raised(p)
           => /\ scan'[p] = IdleScan
              /\ call'[p] = IdleCall
              /\ running' = 0
              /\ last_position' = last_position
              /\ issues' = issues
              /\ \E q \in Scans : TriggerGuard(q)'

\* the offsets a failed cycle has read are read by no later scan
FailedCycleNotReadAgain == \A o \in DOMAIN lost : lost'[o] < 2

\* C4 (specification Spec).  A cycle that raises returns normally, keeps
\* the cursor where step 2 put it (so that what the failed cycle read is
\* not read again by a later cycle), keeps the issues appended before the
\* failure, and leaves the next trigger able to run a scan.
C4_FailedCycleKeepsCursor ==
    [][FailedCycleSwallowed /\ FailedCycleNotReadAgain]_vars

\* the part of C4 that does not depend on what later scans read
FailedCycleSwallowedAlways == [][FailedCycleSwallowed]_vars

\* a cycle has just failed after it had read the file and kept an issue
FailedCycleWitness ==
    /\ logged = <<"Error analyzing logs">>
    /\ issues # <<>>
    /\ last_position > 0

\* the analyze_log invocations of a cycle up to the candidate it is at
InvokedUpTo(s) ==
    LET upto[c \in 0..Len(s.potential)] ==
            IF c = 0 THEN 0
            ELSE upto[c - 1] + Min(SnippetCap, Len(s.potential[c].log_snippets))
    IN  upto[s.ci - 1] + s.si

\* C5 (specification SpecCap).  A cycle passes to analyze_log the
\* candidates of a category in their order and stops after the fifth: at
\* most 5 invocations for a category and, with 6 categories, 30 in a cycle.
C5_AtMostFivePerCategory ==
    \A p \in Scans :
        scan[p].pc \in {"analyze", "notify"}
           => /\ scan[p].si \in 1..SnippetCap
              /\ scan[p].si <= Len(scan[p].potential[scan[p].ci].log_snippets)
              /\ scan[p].invoked = InvokedUpTo(scan[p])
              /\ scan[p].invoked <= SnippetCap * Len(_issue_patterns)
              /\ Len(scan[p].potential) <= Len(_issue_patterns)
              /\ call[p].pc # "idle"
                    => call[p].key = _generate_cache_key(SnippetAt(scan[p]),
                                                         IssueTypeAt(scan[p]))

\* a cycle is at the fifth candidate of a category that has more
C5_Witness ==
    \E p \in Scans :
        /\ scan[p].pc \in {"analyze", "notify"}
        /\ scan[p].si = SnippetCap
        /\ Len(scan[p].potential[scan[p].ci].log_snippets) > SnippetCap

\* C6 (specification Spec).  A step appends an issue for exactly those
\* analyses returned in it that are not None and have a suggested fix, for
\* the candidate the analysis was asked for, and fires exactly one
\* issue-detected event for each; a step in which no such analysis is
\* returned appends no issue and fires no issue-detected event.
C6_IssueIffDiagnosis ==
    [][LET goods == SelectSeq(returned', IsDiagnosis)
           n == Len(issues)
       IN  IF returned' = <<>>
           THEN /\ issues' = issues \/ issues' = <<>>
                /\ SelectSeq(bus', IsIssueDetected) = <<>>
           ELSE /\ Len(issues') = n + Len(goods)
                /\ SubSeq(issues', 1, n) = issues
                /\ \A i \in 1..Len(goods) :
                      LET issue == issues'[n + i]
                          analysis == goods[i].value[1]
                      IN  /\ issue.suggested_fix = analysis.suggested_fix
                          /\ issue.confidence = analysis.confidence
                          /\ issue.details = analysis.details
                          /\ goods[i].key = _generate_cache_key(issue.log_snippet,
                                                                issue.issue_type)
                /\ SelectSeq(bus', IsIssueDetected)
                      = [i \in 1..Len(goods) |-> IssueDetected(issues'[n + i])]
      ]_vars

\* an analysis with a suggested fix has just been returned to a scan: the
\* issue is the last of the store and its event is the one event fired
C6_Witness ==
    \E p \in Scans :
        /\ scan[p].pc = "notify"
        /\ returned # <<>>
        /\ IsDiagnosis(returned[Len(returned)])
        /\ issues # <<>>
        /\ bus = <<IssueDetected(issues[Len(issues)])>>

\* the new bytes of the cycle of invocation p give no candidate
NoCandidate(p) ==
    /\ scan[p].pc = "gather"
    /\ _identify_potential_issues(scan[p].new_logs) = <<>>

\* the step fires the update event once, as its last event, with the
\* length of the issue store
OneUpdate ==
    /\ SelectSeq(bus', IsUpdated) = <<AssistantUpdated(Len(issues'))>>
    /\ bus'[Len(bus')] = AssistantUpdated(Len(issues'))

\* C7 as the specification states it (specification Spec).  Every cycle
\* that has read new bytes and does not raise ends with exactly one update
\* event that carries the length of the issue store, also when the bytes
\* give no candidate.
C7_EveryCycleEndsWithUpdate ==
    [][\A p \in Scans :
        /\ (CycleEnds(p) /\ ~Raised(p)
              /\ (scan[p].pc = "gather" => scan[p].new_logs # <<>>))
              => OneUpdate
        /\ (scan'[p] # scan[p] /\ scan'[p].pc # "idle")
              => SelectSeq(bus', IsUpdated) = <<>>
      ]_vars

\* C7 (specification Spec).  A cycle that has read new bytes with at least
\* one candidate and does not raise ends with exactly one update event that
\* carries the length of the issue store; a cycle whose bytes give no
\* candidate ends without any event; no other step of a cycle fires an
\* update event.
C7_CycleWithCandidatesEndsWithUpdate ==
    [][\A p \in Scans :
        /\ (CycleEnds(p) /\ ~Raised(p) /\ ~NoCandidate(p)) => OneUpdate
        /\ (CycleEnds(p) /\ NoCandidate(p)) => bus' = <<>>
        /\ (scan'[p] # scan[p] /\ scan'[p].pc # "idle")
              => SelectSeq(bus', IsUpdated) = <<>>
      ]_vars

\* a cycle has just ended with the update event for a store that holds an
\* issue
C7_Witness ==
    /\ issues # <<>>
    /\ bus # <<>>
    /\ bus[Len(bus)] = AssistantUpdated(Len(issues))
    /\ \E p \in Scans : scan[p].pc = "idle" /\ returned # <<>>

\* C8 (specification SpecCache).  An analyze_log call whose key is in the
\* cache returns the cached diagnosis in the step it is made: it never
\* gets to the remote call or to a retry delay, and the cache stays as it
\* is.
C8_HitReturnsCached ==
    [][\A p \in Scans : \A n \in AskNext :
        (DirectAnalyze(p, n) /\ InCache(response_cache, DirectKey(n)))
           => /\ returned' = <<[key |-> DirectKey(n),
                                value |-> <<CacheGet(response_cache, DirectKey(n))>>]>>
              /\ call'[p] = IdleCall
              /\ response_cache' = response_cache
      ]_vars

\* In a run of calls made one after the other, all answered well, the
\* oldest key of a cache of two or more has just been returned: a hit.
C8_Witness ==
    /\ odd = 0
    /\ InFlight = 0
    /\ Len(response_cache) >= 2
    /\ returned # <<>>
    /\ returned[1].key = response_cache[1].key
    /\ returned[1].value = <<response_cache[1].value>>

\* cache_size_limit + 1 keys, all different, have gone into the cache one
\* after the other
OneMoreThanFits ==
    /\ odd = 0
    /\ InFlight = 0
    /\ puts = cache_size_limit + 1
    /\ fresh = cache_size_limit + 1

\* C9 (specification SpecCache).  The cache never holds more than 50
\* entries; after 51 different keys have gone in it holds the 50 last, in
\* their order, without the first.
C9_CacheBoundedFifo ==
    /\ Len(response_cache) <= cache_size_limit
    /\ OneMoreThanFits
          => /\ Len(response_cache) = cache_size_limit
             /\ \A i \in 1..cache_size_limit :
                   response_cache[i].key = DirectKey(i + 1)
             /\ ~InCache(response_cache, DirectKey(1))

\* the 51st key has gone in
C9_Witness ==
    /\ OneMoreThanFits
    /\ Len(response_cache) = cache_size_limit
    /\ response_cache[cache_size_limit].key = DirectKey(cache_size_limit + 1)

\* C10 (specification SpecCache).  A step takes a key out of the cache
\* only when the cache holds 50 entries and the key that goes in is not yet
\* there, also when calls overlap.
C10_EvictsOnlyWhenFullAndNew ==
    [][\A p \in Scans :
        (call[p].pc = "api" /\ call'[p].pc = "idle"
            /\ ~(CacheKeys(response_cache) \subseteq CacheKeys(response_cache')))
           => /\ Len(response_cache) = cache_size_limit
              /\ ~InCache(response_cache, call[p].key)
      ]_vars

\* the step is a direct analyze_log call of p for key n that finds the key
\* in the cache
HitStep(p, n) == DirectAnalyze(p, n) /\ InCache(response_cache, DirectKey(n))

\* the step is the return of a call of p that puts its key into the cache
InsertStep(p) ==
    /\ call[p].pc = "api"
    /\ call'[p].pc = "idle"
    /\ response_cache' # response_cache

\* C11 (specification SpecCache).  A hit leaves the cache as it is,
\* entries and order.  The insertion of a new key into a full cache takes
\* out the entry that went in first, whatever hits there were in between:
\* in a run of calls made one after the other, all answered well, the keys
\* of the cache stay in the order they were first asked for.
C11_HitKeepsEvictionOrder ==
    [][/\ \A p \in Scans : \A n \in AskNext :
             HitStep(p, n) => response_cache' = response_cache
       /\ \A p \in Scans :
             (InsertStep(p) /\ Len(response_cache) = cache_size_limit
                 /\ ~InCache(response_cache, call[p].key))
                => /\ Tail(response_cache)
                        = SubSeq(response_cache', 1, cache_size_limit - 1)
                   /\ response_cache'[cache_size_limit].key = call[p].key
                   /\ ~InCache(response_cache', response_cache[1].key)
       /\ odd' = 0
             => \A i \in 1..Len(response_cache') :
                   response_cache'[i].key
                      = DirectKey(response_cache'[1].key[2] + i - 1)
      ]_vars

\* the oldest key of a full cache has just been hit
C11_Witness ==
    /\ odd = 0
    /\ InFlight = 0
    /\ Len(response_cache) = cache_size_limit
    /\ returned = <<[key |-> response_cache[1].key,
                     value |-> <<response_cache[1].value>>]>>

\* the step is the return of a direct analyze_log call of p that had
\* missed the cache
MissReturns(p) == call[p].pc \in {"api", "sleep"} /\ call'[p].pc = "idle"

\* C12 (specification SpecCache).  When a call that missed the cache
\* returns a diagnosis with a suggested fix, the cache holds that diagnosis
\* under the key of the call in the state the call returns to; when it
\* returns None or a diagnosis with an empty suggested fix, the cache is as
\* it was.
C12_MissCachesDiagnosis ==
    [][\A p \in Scans :
        MissReturns(p)
           => /\ Len(returned') = 1
              /\ returned'[1].key = call[p].key
              /\ IF IsDiagnosis(returned'[1])
                 THEN /\ InCache(response_cache', call[p].key)
                      /\ CacheGet(response_cache', call[p].key)
                            = returned'[1].value[1]
                 ELSE response_cache' = response_cache
      ]_vars

\* a call has just returned a diagnosis that is now cached, while another
\* call that missed on the same key is still waiting
C12_Witness ==
    \E p, q \in Scans :
        /\ call[p].pc = "idle"
        /\ call[q].pc = "api"
        /\ returned # <<>>
        /\ returned[1].key = call[q].key
        /\ IsDiagnosis(returned[1])
        /\ InCache(response_cache, call[q].key)
        /\ CacheGet(response_cache, call[q].key) = returned[1].value[1]

\* the seconds a call has waited when it makes attempt number a + 1
WaitedBefore(a) == IF a = 0 THEN 0 ELSE IF a = 1 THEN 2 ELSE 6

\* C13 (specification SpecCache).  A call makes at most 3 attempts.  It
\* waits only after an attempt that ended with a rate limit, API or
\* connection error and was not the third: 2 s before the second attempt,
\* 4 s before the third.  A third attempt that succeeds after two such
\* errors returns its diagnosis after 6 s of waiting; a third attempt that
\* fails so ends the call with None, without a wait and without an
\* exception to the caller.
C13_ThreeAttemptsBackoff ==
    [][\A p \in Scans :
        /\ call'[p].pc # "idle"
              => /\ call'[p].attempt \in 0..(max_retries - 1)
                 /\ call'[p].pc = "api"
                       => call'[p].waited = WaitedBefore(call'[p].attempt)
                 /\ call'[p].pc = "sleep"
                       => /\ call'[p].attempt < max_retries - 1
                          /\ call'[p].waited = WaitedBefore(call'[p].attempt + 1)
        /\ (call[p].pc # "sleep" /\ call'[p].pc = "sleep")
              => /\ ApiRetryableError(p)
                 /\ call'[p].waited - call[p].waited
                       = (IF call[p].attempt = 0 THEN 2 ELSE 4)
        /\ (call[p].pc = "api" /\ call'[p].pc = "api")
              => call'[p] = call[p]
        /\ (call[p].pc = "sleep" /\ call'[p] # call[p])
              => /\ call'[p].pc = "api"
                 /\ call'[p].attempt = call[p].attempt + 1
        /\ (ApiContent(p, GoodBody) /\ call[p].attempt = max_retries - 1)
              => /\ call[p].waited = 6
                 /\ returned' = <<[key |-> call[p].key,
                                   value |-> <<_parse_response(GoodBody)>>]>>
                 /\ call'[p] = IdleCall
        /\ (ApiRetryableError(p) /\ call[p].attempt = max_retries - 1)
              => /\ returned' = <<[key |-> call[p].key, value |-> <<>>]>>
                 /\ call'[p] = IdleCall
                 /\ response_cache' = response_cache
                 /\ logged' = <<"Error calling OpenAI API">>
      ]_vars

\* a call is at its third attempt, after two errors and 6 s of waiting
C13_Witness ==
    \E p \in Scans :
        /\ call[p].pc = "api"
        /\ call[p].attempt = max_retries - 1
        /\ call[p].waited = 6

\* C14 (specification SpecCache).  An attempt that ends with an empty
\* completion, or with an error that is no rate limit, API or connection
\* error, ends the call: no wait and no further attempt, None is returned
\* to the caller, and the cache is as it was.
C14_NoRetryOnOtherFailure ==
    [][\A p \in Scans :
        (ApiEmpty(p) \/ ApiOtherError(p))
           => /\ call'[p] = IdleCall
              /\ returned' = <<[key |-> call[p].key, value |-> <<>>]>>
              /\ response_cache' = response_cache
              /\ logged' \in {<<"Empty response from OpenAI API">>,
                              <<"Error calling OpenAI API">>}
      ]_vars

\* a call has just ended with None after an empty completion, with a cache
\* that holds other keys
C14_Witness ==
    /\ logged = <<"Empty response from OpenAI API">>
    /\ InFlight = 0
    /\ returned # <<>>
    /\ returned[1].value = <<>>
    /\ response_cache # <<>>
    /\ ~InCache(response_cache, returned[1].key)

(***************************************************************************)
(* The parser scenario: one analyze_log call has missed the empty cache    *)
(* and waits for the completion, whose body is one of ParseBodies.         *)
(***************************************************************************)
Confidences ==
    {IntConf(n) : n \in {-5, 0, 1, 37, 80, 100, 150}}
        \cup {StrConf(n) : n \in {-5, 0, 80, 100, 150}}
        \cup {FloatConf(n) : n \in {-5, 0, 80, 99, 150}}
        \cup {BadConf}

ParseBodies ==
    [kind : {"object"},
     suggested_fix : {<<>>, <<"">>, <<"Check device power">>},
     confidence : {<<>>} \cup {<<c>> : c \in Confidences},
     details : {<<>>, <<"">>, <<"The device is offline">>, <<"See the docs">>}]
        \cup {GarbageBody, OtherBody}

InitParse ==
    /\ last_position = 0
    /\ issues = <<>>
    /\ response_cache = <<>>
    /\ cancel_interval = "none"
    /\ running = 0
    /\ scan = [p \in Scans |-> IdleScan]
    /\ call = [p \in Scans |->
                 IF p = 1
                 THEN [pc |-> "api", key |-> DirectKey(1), attempt |-> 0,
                       waited |-> 0]
                 ELSE IdleCall]
    /\ bus = <<>>
    /\ logged = <<>>
    /\ returned = <<>>
    /\ fresh = 1
    /\ puts = 0
    /\ odd = 0
    /\ file_exists = FALSE
    /\ file = <<>>
    /\ written = 0
    /\ append_only = TRUE
    /\ handed = [o \in 1..MaxFile |-> 0]
    /\ lost = [o \in 1..MaxFile |-> 0]

NextParse == \E p \in Scans : \E response \in ParseBodies : ApiContent(p, response)

SpecParse == InitParse /\ [][NextParse]_vars

\* the step is the return of the call of p with the completion body given
Parsed(p, body) == ApiContent(p, body)

\* the integer the specification gives for the confidence of a body
ExpectedConfidence(body) ==
    IF body.confidence = <<>> THEN 50
    ELSE IF body.confidence[1].form = "bad" THEN 50
    ELSE Max(0, Min(100, body.confidence[1].n))

\* C15 (specification SpecParse).  For a body that parses as a JSON object
\* the confidence of the diagnosis returned is an integer in 0..100: 50
\* for a missing value or one that cannot be coerced, else the value
\* coerced to an integer and clamped to 0..100.
C15_ConfidenceIntegerInRange ==
    [][\A p \in Scans : \A body \in ParseBodies :
        (Parsed(p, body) /\ body.kind = "object")
           => /\ returned'[1].value # <<>>
              /\ returned'[1].value[1].confidence.form = "int"
              /\ returned'[1].value[1].confidence.n \in 0..100
              /\ returned'[1].value[1].confidence
                    = IntConf(ExpectedConfidence(body))
      ]_vars

\* a body that cannot be parsed gives the fallback diagnosis: the parser
\* logs the failure and analyze_log returns, its except clause not entered
FallbackOnGarbage(p) ==
    Parsed(p, GarbageBody)
       => /\ returned'[1].value
                = <<[suggested_fix |-> FORMAT_ERROR, confidence |-> IntConf(0),
                     details |-> ""]>>
          /\ logged' = <<"Failed to parse OpenAI response as JSON">>

\* the fields an object lacks get their defaults
DefaultsForMissing(body, d) ==
    /\ body.suggested_fix = <<>> => d.suggested_fix = NO_SUGGESTION
    /\ body.details = <<>> => d.details = ""
    /\ body.confidence = <<>> => d.confidence = IntConf(50)

MaxStore == 3

\* filtered_issues[-limit:] for limit > 0
Last(s, limit) == SubSeq(s, Max(0, Len(s) - limit) + 1, Len(s))

\* a get_issues that keeps the first limit entries
get_issues_head(store, limit, issue_type) ==
    LET filtered_issues ==
            IF issue_type # <<>> /\ issue_type[1] # ""
            THEN SelectSeq(store, LAMBDA i : i.issue_type = issue_type[1])
            ELSE store
    IN  IF limit # <<>> /\ limit[1] # 0 /\ limit[1] > 0
        THEN Take(filtered_issues, limit[1])
        ELSE filtered_issues

get_issues(store, limit, issue_type) ==
    LET filtered_issues ==
            IF issue_type # <<>> /\ issue_type[1] # ""
            THEN SelectSeq(store, LAMBDA i : i.issue_type = issue_type[1])
            ELSE store
    IN  IF limit # <<>> /\ limit[1] # 0 /\ limit[1] > 0
        THEN Last(filtered_issues, limit[1])
        ELSE filtered_issues

\* the arguments a caller passes
Limits == {<<>>} \cup {<<n>> : n \in (-1)..(MaxStore + 1)}
IssueTypes ==
    {<<>>, <<"">>, <<ISSUE_ENTITY_UNAVAILABLE>>, <<ISSUE_GENERAL_ERROR>>,
     <<ISSUE_SCRIPT_ERROR>>}

\* the call get_issues(limit, issue_type): it runs between two steps of the
\* coroutines and returns its list
GetIssues(limit, issue_type) ==
    /\ running = 0
    /\ returned' = <<[key |-> <<limit, issue_type>>,
                      value |-> get_issues(issues, limit, issue_type)]>>
    /\ bus' = <<>>
    /\ logged' = <<>>
    /\ UNCHANGED <<FileVars, handed, lost, last_position, issues, response_cache,
                   cancel_interval, running, scan, call, DirectVars>>

\* the issues a store may hold
StoredIssues ==
    {[issue_type |-> t, log_snippet |-> <<[ts |-> n, msg |-> "U", nl |-> FALSE]>>,
      suggested_fix |-> "Check device power", confidence |-> IntConf(80),
      details |-> ""] :
        t \in {ISSUE_ENTITY_UNAVAILABLE, ISSUE_GENERAL_ERROR}, n \in 1..2}

Stores == UNION {[1..n -> StoredIssues] : n \in 0..MaxStore}

\* a monitor that holds any store, any cursor and a cached diagnosis or none
InitIssues ==
    /\ issues \in Stores
    /\ last_position \in 0..1
    /\ response_cache \in {<<>>, _update_cache(<<>>, DirectKey(1), _parse_response(GoodBody))}
    /\ cancel_interval = "set"
    /\ running = 0
    /\ scan = [p \in Scans |-> IdleScan]
    /\ call = [p \in Scans |-> IdleCall]
    /\ bus = <<>>
    /\ logged = <<>>
    /\ returned = <<>>
    /\ fresh = 0
    /\ puts = 0
    /\ odd = 0
    /\ file_exists = TRUE
    /\ file = <<>>
    /\ written = 0
    /\ append_only = TRUE
    /\ handed = [o \in 1..MaxFile |-> 0]
    /\ lost = [o \in 1..MaxFile |-> 0]

NextIssues == \E limit \in Limits : \E issue_type \in IssueTypes : GetIssues(limit, issue_type)

SpecIssues == InitIssues /\ [][NextIssues]_vars

\* the places of the store a filter selects: all of them without a filter
\* (None, or the empty string, which the code takes for none)
Selected(store, issue_type) ==
    {i \in 1..Len(store) :
        (issue_type # <<>> /\ issue_type[1] # "") => store[i].issue_type = issue_type[1]}

\* the m-th smallest place of a set of places
Nth(places, m) == CHOOSE i \in places : Cardinality({x \in places : x <= i}) = m

\* how many of n selected issues a limit leaves
Kept(n, limit) == IF limit # <<>> /\ limit[1] > 0 THEN Min(limit[1], n) ELSE n

\* C17 (specification SpecIssues).  get_issues returns the issues of the
\* store whose category is the filter (all without a filter), in store
\* order, cut to the last limit of them for a positive limit and uncut for
\* a limit that is absent or 0 (or negative); store, cursor and cache stay
\* as they were.
C17_GetIssuesFilterAndTail ==
    [][\A limit \in Limits : \A issue_type \in IssueTypes :
        GetIssues(limit, issue_type)
           => LET places == Selected(issues, issue_type)
                  n == Cardinality(places)
                  k == Kept(n, limit)
                  result == returned'[1].value
              IN  /\ Len(result) = k
                  /\ \A j \in 1..k : result[j] = issues[Nth(places, n - k + j)]
                  /\ issues' = issues
                  /\ last_position' = last_position
                  /\ response_cache' = response_cache
      ]_vars

\* get_issues(limit=2, issue_type=general_error) has just returned the last
\* two of the three general errors of a store, in store order
C17_Witness ==
    /\ Len(issues) = 3
    /\ \A i \in 1..3 : issues[i].issue_type = ISSUE_GENERAL_ERROR
    /\ issues[2] # issues[3]
    /\ returned # <<>>
    /\ returned[1].key = <<<<2>>, <<ISSUE_GENERAL_ERROR>>>>
    /\ returned[1].value = <<issues[2], issues[3]>>

\* the step of invocation p appends an issue
Appends(p) ==
    /\ scan[p].pc # "idle"
    /\ scan'[p].pc # "idle"
    /\ scan'[p].appended = scan[p].appended + 1

\* C18 (specification Spec).  clear_issues leaves the store empty, fires
\* the one update event with count 0 and leaves the cursor, the cache and
\* the suspended invocations as they are; an invocation that goes on after
\* it appends its issue to the store as it finds it, and the update event
\* at its end carries the length the store then has.
C18_ClearEmptiesStoreOnly ==
    [][/\ clear_issues
           => /\ issues' = <<>>
              /\ bus' = <<AssistantUpdated(0)>>
              /\ last_position' = last_position
              /\ response_cache' = response_cache
              /\ scan' = scan /\ call' = call
       /\ \A p \in Scans :
             /\ Appends(p)
                   => /\ Len(issues') = Len(issues) + 1
                      /\ SubSeq(issues', 1, Len(issues)) = issues
                      /\ issues'[Len(issues')].issue_type = IssueTypeAt(scan'[p])
                      /\ issues'[Len(issues')].log_snippet = SnippetAt(scan'[p])
             /\ (CycleEnds(p) /\ ~Raised(p) /\ scan[p].pc \in {"analyze", "notify"})
                   => bus'[Len(bus')] = AssistantUpdated(Len(issues'))
      ]_vars

\* clear_issues has just run while an invocation that had appended an issue
\* is suspended in its remote call
C18_Witness ==
    /\ issues = <<>>
    /\ bus = <<AssistantUpdated(0)>>
    /\ \A q \in Scans : scan[q].pc # "idle"
    /\ \E p \in Scans :
          /\ scan[p].pc = "analyze"
          /\ call[p].pc = "api"
          /\ scan[p].appended >= 1

\* an invocation suspended after its second issue, in a store that holds
\* that issue alone: the store was cleared while the invocation was on its
\* way, and what it appended since is there
AppendedAfterClear ==
    \E p \in Scans :
       /\ scan[p].pc = "notify"
       /\ scan[p].appended = 2
       /\ Len(issues) = 1
       /\ issues[1].issue_type = IssueTypeAt(scan[p])
       /\ issues[1].log_snippet = SnippetAt(scan[p])

(***************************************************************************)
(* The order scenario: the cap scenario with a caller of clear_issues.     *)
(***************************************************************************)
NextOrder ==
    \/ NextCap
    \/ clear_issues

SpecOrder == InitCap /\ [][NextOrder]_vars

\* the place of the candidate an invocation is at comes before that of t
Before(s, t) == s.ci < t.ci \/ (s.ci = t.ci /\ s.si < t.si)

\* the categories of the candidates of an invocation come in the order of
\* _issue_patterns
InPatternOrder(s) ==
    \A i, j \in 1..Len(s.potential) :
        i < j => Index(_issue_patterns, s.potential[i].issue_type)
                    < Index(_issue_patterns, s.potential[j].issue_type)

\* C19 (specification SpecOrder).  Only clear_issues takes anything out of
\* the store: every other step leaves the issues there are as they are and
\* where they are.  An invocation holds its candidates by category in the
\* order of the patterns, goes through them forward only, category after
\* category and candidate after candidate, and appends an issue for the
\* candidate it is at.
C19_AppendOnlyInOrder ==
    [][/\ \/ clear_issues
          \/ /\ Len(issues') >= Len(issues)
             /\ SubSeq(issues', 1, Len(issues)) = issues
       /\ \A p \in Scans :
             /\ InPatternOrder(scan'[p])
             /\ (scan[p].pc \in {"analyze", "notify"}
                    /\ scan'[p].pc \in {"analyze", "notify"}
                    /\ scan'[p] # scan[p])
                   => /\ scan'[p].potential = scan[p].potential
                      /\ Before(scan[p], scan'[p])
                            \/ (scan[p].pc = "analyze" /\ scan'[p].ci = scan[p].ci
                                   /\ scan'[p].si = scan[p].si)
             /\ Appends(p)
                   => /\ issues' = Append(issues, issues'[Len(issues')])
                      /\ issues'[Len(issues')].issue_type = IssueTypeAt(scan'[p])
                      /\ issues'[Len(issues')].log_snippet = SnippetAt(scan'[p])
      ]_vars

\* the store holds what one invocation has appended, and nothing else: the
\* first two candidates of its first category, in that order, and as the
\* last issue the first candidate of its second category
C19_Witness ==
    \E p \in Scans :
       /\ scan[p].pc = "notify"
       /\ scan[p].ci = 2
       /\ scan[p].si = 1
       /\ Len(issues) >= 3
       /\ scan[p].appended = Len(issues)
       /\ issues[1].issue_type = scan[p].potential[1].issue_type
       /\ issues[1].log_snippet = scan[p].potential[1].log_snippets[1]
       /\ issues[2].issue_type = scan[p].potential[1].issue_type
       /\ issues[2].log_snippet = scan[p].potential[1].log_snippets[2]
       /\ issues[Len(issues)].issue_type = scan[p].potential[2].issue_type
       /\ issues[Len(issues)].log_snippet = scan[p].potential[2].log_snippets[1]

(***************************************************************************)
(* The extractor scenario: an invocation has read a text, the entries of a *)
(* log or the paragraphs of a text without time stamps, and waits for the  *)
(* matching tasks.                                                         *)
(***************************************************************************)
MaxEntries == 4

StampedTexts ==
    UNION {[1..n -> [ts : {0, 1}, msg : {"U", "W", "I"}]] : n \in 1..MaxEntries}

ParagraphTexts ==
    UNION {[1..n -> [ts : {-1}, msg : {"e", "E", "x"}]] : n \in 1..MaxEntries}

InitDedup ==
    /\ file \in StampedTexts \cup ParagraphTexts
    /\ file_exists = TRUE
    /\ written = 0
    /\ append_only = TRUE
    /\ last_position = Len(file)
    /\ issues = <<>>
    /\ response_cache = <<>>
    /\ cancel_interval = "set"
    /\ running = 0
    /\ scan = [p \in Scans |->
                 IF p = 1
                 THEN [IdleScan EXCEPT !.pc = "gather", !.current_size = Len(file),
                                       !.new_logs = file]
                 ELSE IdleScan]
    /\ call = [p \in Scans |-> IdleCall]
    /\ bus = <<>>
    /\ logged = <<>>
    /\ returned = <<>>
    /\ fresh = 0
    /\ puts = 0
    /\ odd = 0
    /\ handed = [o \in 1..MaxFile |-> 0]
    /\ lost = [o \in 1..MaxFile |-> 0]

NextDedup == \E p \in Scans : ScanGathered(p)

SpecDedup == InitDedup /\ [][NextDedup]_vars

\* two strings are similar: equal, if one has less than 20 characters;
\* else alike in each of the places 20..99 (counted from 0)
Similar(a, b) ==
    IF Len(a) < 20 \/ Len(b) < 20 THEN a = b
    ELSE \A k \in 21..100 :
            /\ (k <= Len(a)) <=> (k <= Len(b))
            /\ k <= Len(a) => a[k] = b[k]

ShortCandidates ==
    \E p \in Scans : \E c \in 1..Len(scan[p].potential) :
        LET log_snippets == scan[p].potential[c].log_snippets
        IN  \E i, j \in 1..Len(log_snippets) :
               /\ i < j
               /\ Len(JoinText(log_snippets[i])) < 20
               /\ Len(JoinText(log_snippets[j])) < 20

(***************************************************************************)
(* The end-to-end scenario: the monitor was initialized on an empty file;  *)
(* the logger has since written one line that says that light.kitchen is   *)
(* unavailable, at level ERROR or at level INFO, and one INFO line that     *)
(* says nothing of the kind; the remote service answers every request with *)
(* the fix "Check device power" and confidence 80, and the notification    *)
(* service call succeeds.                                                  *)
(***************************************************************************)
E2ETexts ==
    {t \in [1..2 -> [ts : {0, 1}, msg : {"U", "V", "I"}]] :
        /\ t[1].ts <= t[2].ts
        /\ Cardinality({i \in 1..2 : t[i].msg = "I"}) = 1}

InitE2E ==
    /\ file \in E2ETexts
    /\ file_exists = TRUE
    /\ written = 2
    /\ append_only = TRUE
    /\ last_position = 0
    /\ issues = <<>>
    /\ response_cache = <<>>
    /\ cancel_interval = "set"
    /\ running = 0
    /\ scan = [p \in Scans |-> IdleScan]
    /\ call = [p \in Scans |-> IdleCall]
    /\ bus = <<>>
    /\ logged = <<>>
    /\ returned = <<>>
    /\ fresh = 0
    /\ puts = 0
    /\ odd = 0
    /\ handed = [o \in 1..MaxFile |-> 0]
    /\ lost = [o \in 1..MaxFile |-> 0]

NextE2E ==
    \/ \E p \in Scans : Trigger(p)
    \/ \E p \in Scans : ScanGetsize(p)
    \/ \E p \in Scans : ScanRead(p)
    \/ \E p \in Scans : ScanGathered(p)
    \/ \E p \in Scans : NotifyDone(p)
    \/ \E p \in Scans : ApiContent(p, GoodBody)

SpecE2E == InitE2E /\ [][NextE2E]_vars

\* the step ends the cycle of invocation p after its loops
LoopsEnd(p) ==
    /\ scan[p].pc \in {"analyze", "notify"}
    /\ scan'[p].pc = "idle"

\* the store holds one issue, of category entity_unavailable and with
\* confidence 80, and the update event says so
OneUnavailableIssue ==
    /\ Len(issues') = 1
    /\ issues'[1].issue_type = ISSUE_ENTITY_UNAVAILABLE
    /\ issues'[1].confidence = IntConf(80)
    /\ issues'[1].suggested_fix = "Check device power"
    /\ bus'[Len(bus')] = AssistantUpdated(1)

\* C21 (specification SpecE2E).  The scan of the two lines ends with one
\* issue in the store, of category entity_unavailable and with confidence
\* 80, also when the line matches the general-error pattern as well.
C21_OneIssueAfterScan ==
    [][\A p \in Scans : LoopsEnd(p) => OneUnavailableIssue]_vars

\* the scan of a text whose line on light.kitchen does not match the
\* general-error pattern ends with the one issue
OneIssueWithoutGeneralMatch ==
    [][\A p \in Scans :
        (LoopsEnd(p) /\ \A i \in 1..Len(file) : file[i].msg # "U")
           => OneUnavailableIssue]_vars

\* the step is the existence test of invocation p
TestsExistence(p) == Trigger(p) \/ ScanExists(p)

\* C22 (specification Spec).  An invocation that finds the file missing
\* logs that and returns: no exception, no remote call, no event, and the
\* cursor, the store and the cache stay as they are.  Neither the removal
\* of the file nor its return moves the cursor, and the invocation that
\* finds the file again compares its size with the cursor as it stands.
C22_MissingFileLeavesAllAsIs ==
    [][/\ \A p \in Scans :
             /\ (TestsExistence(p) /\ ~file_exists)
                   => /\ scan'[p] = IdleScan
                      /\ logged' = <<"Log file not found">>
                      /\ bus' = <<>>
                      /\ returned' = <<>>
                      /\ call' = call
                      /\ last_position' = last_position
                      /\ issues' = issues
                      /\ response_cache' = response_cache
             /\ (ScanGetsize(p) /\ file_exists)
                   => /\ last_position'
                            = IF Len(file) < last_position THEN 0 ELSE last_position
                      /\ (scan'[p].pc = "idle") <=> (Len(file) = last_position')
       /\ (FileDelete \/ FileCreate) => last_position' = last_position
      ]_vars

\* an invocation has just found the file missing, with the cursor off 0
\* and an issue in the store
C22_Witness ==
    /\ ~file_exists
    /\ logged = <<"Log file not found">>
    /\ last_position > 0
    /\ issues # <<>>
    /\ cancel_interval = "set"

\* the file is back, shorter than the cursor the monitor still holds, and
\* an invocation is about to read its size
FileBackBelowCursor ==
    \E p \in Scans :
       /\ scan[p].pc = "getsize"
       /\ file_exists
       /\ ~append_only
       /\ Len(file) < last_position

(***************************************************************************)
(* LogMonitor.shutdown, called when the entry is unloaded: the interval is *)
(* unsubscribed (cancel_interval "cancelled": the attribute still holds    *)
(* the function, the timer is gone).  The entry is taken out of hass.data  *)
(* before, so the services do not reach the monitor any more either.       *)
(***************************************************************************)
shutdown ==
    /\ running = 0
    /\ cancel_interval # "none"
    /\ cancel_interval' = "cancelled"
    /\ logged' = <<"Log monitor shutdown complete">>
    /\ bus' = <<>>
    /\ returned' = <<>>
    /\ UNCHANGED <<FileVars, handed, lost, last_position, issues, response_cache,
                   running, scan, call, DirectVars>>

\* The shutdown scenario: the end-to-end scenario with any answer of the
\* remote service, a notification that may fail, and a shutdown at any
\* time.  The event loop goes on with a coroutine that can go on, and the
\* remote service and the notification service end every call.
NextStop ==
    \/ NextE2E
    \/ \E p \in Scans : NotifyRaise(p)
    \/ \E p \in Scans : Remote(p)
    \/ shutdown

\* ScanGathered(p) can be taken: it is whenever the matching tasks of p
\* are awaited and no coroutine runs, and it ends the wait
GatherEnabled(p) == running = 0 /\ scan[p].pc = "gather"

\* Weak fairness of each step of an invocation; that of ScanGathered is
\* stated by GatherEnabled: the step is not enabled for ever.
FairStop ==
    \A p \in Scans :
        /\ WF_vars(ScanGetsize(p) \/ ScanRead(p))
        /\ []<>(~GatherEnabled(p))
        /\ WF_vars(NotifyDone(p) \/ NotifyRaise(p))
        /\ WF_vars(Remote(p))

SpecStop == InitE2E /\ [][NextStop]_vars /\ FairStop

\* the step starts an invocation of analyze_logs that initialize did not
\* start: it leaves the slot busy, or it finds the file missing at once
Starts(p) ==
    /\ scan[p].pc = "idle"
    /\ \/ scan'[p].pc # "idle"
       \/ /\ logged' = <<"Log file not found">>
          /\ \A q \in Scans : scan[q].pc # "exists"

\* C23 (specification SpecStop).  Once shutdown was called no invocation of
\* analyze_logs starts any more; shutdown leaves the invocations that are
\* on their way, the store, the cursor and the cache as they are; and an
\* invocation that is on its way after the shutdown comes to its end.
C23_NoScanStartsAfterShutdown ==
    /\ [][/\ cancel_interval = "cancelled" => \A p \in Scans : ~Starts(p)
          /\ shutdown => /\ scan' = scan /\ call' = call
                         /\ issues' = issues /\ last_position' = last_position
                         /\ response_cache' = response_cache
                         /\ bus' = <<>>
         ]_vars
    /\ \A p \in Scans :
          (cancel_interval = "cancelled" /\ scan[p].pc # "idle")
             ~> (cancel_interval = "cancelled" /\ scan[p].pc = "idle")

\* after the shutdown an invocation has appended an issue and fired its
\* event
C23_Witness ==
    /\ cancel_interval = "cancelled"
    /\ issues # <<>>
    /\ bus # <<>>
    /\ bus[Len(bus)] = IssueDetected(issues[Len(issues)])

\* between the existence test of an invocation and its cursor update no
\* other coroutine takes a step
ReadSectionAtomic ==
    \A p \in Scans :
        scan[p].pc \in {"exists", "getsize", "read"}
           => /\ running = p
              /\ \A q \in Scans \ {p} : scan'[q] = scan[q]
              /\ call' = call
              /\ issues' = issues
              /\ response_cache' = response_cache
              /\ cancel_interval' = cancel_interval

\* the cursor moves to the size the invocation that reads has observed, to
\* 0 by a rotation check, or by initialize, and in no other way
CursorMoves ==
    last_position' # last_position
       => \/ \E p \in Scans : ScanRead(p) /\ last_position' = scan[p].current_size
          \/ \E p \in Scans : ScanGetsize(p) /\ last_position' = 0
          \/ \E p \in Scans : Initialize(p)

\* two invocations on their way have read no offset in common
OverlapDisjoint ==
    append_only'
       => \A p, q \in Scans :
             p # q => scan'[p].offsets \cap scan'[q].offsets = {}

\* C24 (specification Spec).  When invocations of analyze_logs overlap the
\* cursor is not corrupted: no other coroutine runs between the size
\* observation, the read and the cursor update of an invocation, the
\* cursor is the size observed by the last invocation that read, and no
\* offset of a file that is only appended to is read by two of them.
C24_OverlapKeepsCursor ==
    [][ReadSectionAtomic /\ CursorMoves /\ OverlapDisjoint]_vars

\* the part of C24 that does not depend on how far a read goes
OverlapAtomicAlways == [][ReadSectionAtomic /\ CursorMoves]_vars

\* two invocations are on their way, one suspended in its remote call, and
\* both have read data
OverlapWitness ==
    \E p, q \in Scans :
       /\ p # q
       /\ scan[p].pc = "analyze" /\ call[p].pc = "api"
       /\ scan[q].pc \in {"gather", "analyze", "notify"}
       /\ scan[p].offsets # {} /\ scan[q].offsets # {}

\* invocation p is on its way and not in its remote call or a retry delay
OutsideRemoteCall(p) ==
    /\ scan[p].pc # "idle"
    /\ ~(scan[p].pc = "analyze" /\ call[p].pc \in {"api", "sleep"})

\* C25 (specification Spec).  An invocation of analyze_logs is suspended in
\* its remote call and the retry delays of that call only: while it is
\* anywhere else, the matching of the categories and the notification of
\* an appended issue included, no other invocation takes a step and
\* clear_issues does not run.
C25_SuspendsOnlyInRemoteCall ==
    [][\A p \in Scans :
        OutsideRemoteCall(p)
           => /\ ~clear_issues
              /\ \A q \in Scans \ {p} : scan'[q] = scan[q]
      ]_vars

(***************************************************************************)
(* The matching tasks one by one.  _identify_potential_issues creates one  *)
(* task per category (lines 187-193) and awaits asyncio.gather of them     *)
(* (line 195).  _find_matching_entries holds no await, so a task runs from *)
(* its start to its end in one step; the tasks are taken here in any       *)
(* order.  scan[p].done holds the tasks that are done, in the order of     *)
(* their completion: <<number of the task, what it returned>>.             *)
(***************************************************************************)
TaskTexts ==
    UNION {[1..n -> [ts : {0, 1}, msg : {"U", "W", "I"}]] : n \in 1..2}

Tasks == 1..Len(_issue_patterns)

TasksDone(s) == {s.done[k][1] : k \in 1..Len(s.done)}

\* the result of task c among the tasks done
ResultOf(done, c) ==
    LET k == CHOOSE k \in 1..Len(done) : done[k][1] = c
    IN  done[k][2]

\* a gather that gives the results in the order of completion
gather_as_completed(done) == [k \in 1..Len(done) |-> done[k][2]]

\* asyncio.gather: the results in the order of the tasks given to it
gather(done) == [c \in 1..Len(done) |-> ResultOf(done, c)]

\* task c of invocation p runs
TaskRuns(p, c) ==
    /\ running = 0
    /\ scan[p].pc = "gather"
    /\ c \in Tasks \ TasksDone(scan[p])
    /\ scan' = [scan EXCEPT ![p].done =
                  Append(@, <<c, _find_matching_entries(_issue_patterns[c],
                                     SplitEntries(scan[p].new_logs))>>)]
    /\ UNCHANGED <<FileVars, handed, lost, last_position, issues, response_cache,
                   cancel_interval, running, call, bus, logged, returned,
                   DirectVars>>

\* all the tasks are done: gather returns, lines 195-202, and analyze_logs
\* goes on, lines 127-145
TasksGathered(p) ==
    /\ running = 0
    /\ scan[p].pc = "gather"
    /\ TasksDone(scan[p]) = Tasks
    /\ Yield(p, AfterExtraction(World(p), NonEmptyResults(gather(scan[p].done))))
    /\ UNCHANGED <<FileVars, handed, lost, last_position, cancel_interval, DirectVars>>

InitTasks ==
    /\ file \in TaskTexts
    /\ file_exists = TRUE
    /\ written = 0
    /\ append_only = TRUE
    /\ last_position = Len(file)
    /\ issues = <<>>
    /\ response_cache = <<>>
    /\ cancel_interval = "set"
    /\ running = 0
    /\ scan = [p \in Scans |->
                 IF p = 1
                 THEN [IdleScan EXCEPT !.pc = "gather", !.current_size = Len(file),
                                       !.new_logs = file]
                 ELSE IdleScan]
    /\ call = [p \in Scans |-> IdleCall]
    /\ bus = <<>>
    /\ logged = <<>>
    /\ returned = <<>>
    /\ fresh = 0
    /\ puts = 0
    /\ odd = 0
    /\ handed = [o \in 1..MaxFile |-> 0]
    /\ lost = [o \in 1..MaxFile |-> 0]

NextTasks ==
    \/ \E p \in Scans : \E c \in Tasks : TaskRuns(p, c)
    \/ \E p \in Scans : TasksGathered(p)

SpecTasks == InitTasks /\ [][NextTasks]_vars

\* the mapping analyze_logs goes on with after the extraction
Extracted(s) == IF s.pc = "idle" THEN <<>> ELSE s.potential

\* C26 (specification SpecTasks).  In whatever order the matching tasks
\* run and complete, the mapping the extractor returns is the one that
\* matching the categories one after another in the order of the patterns
\* gives: its keys are in that order and no key has an empty list.
C26_ExtractionAnyTaskOrder ==
    [][\A p \in Scans :
        (scan[p].pc = "gather" /\ scan'[p].pc # "gather")
           => /\ Extracted(scan'[p]) = _identify_potential_issues(scan[p].new_logs)
              /\ InPatternOrder(scan'[p])
              /\ \A c \in 1..Len(Extracted(scan'[p])) :
                    Extracted(scan'[p])[c].log_snippets # <<>>
      ]_vars

\* the extractor has returned two keys or more, of tasks that completed
\* in another order than the one of the patterns, and a task without a
\* match completed first
C26_Witness ==
    \E p \in Scans :
        /\ scan[p].pc = "analyze"
        /\ Len(scan[p].potential) >= 2
        /\ scan[p].done[1][2].log_snippets = <<>>
        /\ \E i, j \in 1..Len(scan[p].done) :
              /\ i < j
              /\ scan[p].done[i][1] > scan[p].done[j][1]
              /\ scan[p].done[i][2].log_snippets # <<>>
              /\ scan[p].done[j][2].log_snippets # <<>>

(***************************************************************************)
(* Set-up.  When the monitor is constructed the log file is missing, or    *)
(* it holds up to OldEntries lines of an earlier run, each                 *)
(* "WARNING Update of sensor.power is slow"; the logger of this run never  *)
(* writes that message, so a line of the earlier run is told by it.        *)
(***************************************************************************)
EarlierFiles ==
    {[i \in 1..n |-> [ts |-> 0, msg |-> "W"]] : n \in 0..OldEntries}

InitSetup ==
    /\ InitMonitor
    /\ file_exists \in BOOLEAN
    /\ file \in (IF file_exists THEN EarlierFiles ELSE {<<>>})
    /\ written = 0
    /\ append_only = TRUE
    /\ handed = [o \in 1..(OldEntries + MaxFile) |-> 0]
    /\ lost = [o \in 1..(OldEntries + MaxFile) |-> 0]

NextSetup == NextRotate \/ FileCreate

SpecSetup == InitSetup /\ [][NextSetup]_vars

\* the text invocation p holds has a line of the earlier run
HoldsEarlierLine(p) ==
    \E i \in 1..Len(scan[p].new_logs) : scan[p].new_logs[i].msg = "W"

\* the step is the rotation check of an invocation that finds the file
\* smaller than the cursor
RotationReset ==
    \E p \in Scans : ScanGetsize(p) /\ file_exists /\ Len(file) < last_position

\* C27 (specification SpecSetup).  initialize sets the cursor to the size
\* the file has then, to 0 when the file is missing.  From then on the
\* cursor goes down only when a rotation check resets it, every read
\* starts at the cursor, and no scan, the one run by initialize included,
\* is ever handed a line that was in the file before initialize.
C27_EarlierBytesNeverRead ==
    [][/\ \A p \in Scans :
             Initialize(p) => last_position' = IF file_exists THEN Len(file) ELSE 0
       /\ (cancel_interval # "none" /\ last_position' < last_position)
             => RotationReset /\ last_position' = 0
       /\ \A p \in Scans :
             (ScanRead(p) /\ file_exists)
                => scan'[p].new_logs = Drop(file, last_position)
       /\ \A p \in Scans : ~HoldsEarlierLine(p)'
      ]_vars

\* the monitor was set up on a file that held lines of an earlier run,
\* and a scan later has read the lines written since and appended an
\* issue for one of them, the lines of the earlier run still in the file
C27_Witness ==
    /\ cancel_interval = "set"
    /\ append_only
    /\ Len(file) > OldEntries
    /\ \A i \in 1..OldEntries : file[i].msg = "W"
    /\ last_position >= OldEntries
    /\ issues # <<>>
    /\ \E p \in Scans :
          /\ scan[p].pc = "notify"
          /\ scan[p].offsets # {}
          /\ \A o \in scan[p].offsets : o > OldEntries

\* the monitor was set up while the file was missing, the file was made
\* and written after, and a scan has read it from offset 0
SetUpWithoutFile ==
    /\ cancel_interval = "set"
    /\ append_only
    /\ \E p \in Scans : scan[p].pc = "gather" /\ scan[p].new_logs = file
                           /\ file # <<>>

\* the file was replaced and the new file is as long as the cursor or
\* longer
ReplacedAndGrown ==
    /\ file_exists
    /\ ~append_only
    /\ last_position > 0
    /\ Len(file) >= last_position

\* C28 (specification SpecSetup).  Only a size smaller than the cursor
\* makes a scan reset the cursor: a scan that finds the file as long as
\* the cursor or longer, a file that took the place of the one the cursor
\* was set on included, keeps the cursor and logs no rotation; nothing
\* else lowers the cursor, and every read starts at the cursor, so the
\* part of the new file below the cursor is handed to no scan.
C28_RotationOnlyBySmallerSize ==
    [][/\ \A p \in Scans :
             (ScanGetsize(p) /\ file_exists)
                => /\ last_position' = IF Len(file) < last_position
                                       THEN 0 ELSE last_position
                   /\ ("Log rotation detected, resetting position" \in Range(logged'))
                         <=> Len(file) < last_position
       /\ last_position' < last_position
             => \/ RotationReset
                \/ cancel_interval = "none"
       /\ \A p \in Scans :
             (ScanRead(p) /\ ReplacedAndGrown)
                => /\ Len(scan'[p].new_logs) = Len(file) - last_position
                   /\ \A i \in 1..Len(scan'[p].new_logs) :
                         scan'[p].new_logs[i] = file[last_position + i]
                   /\ last_position' >= last_position
      ]_vars

\* the file the cursor was set on was replaced, the logger has written
\* all its lines to the new file, which is longer than the cursor now, and
\* a scan has found that size, kept the cursor and is about to read
C28_Witness ==
    /\ ReplacedAndGrown
    /\ Len(file) > last_position
    /\ written = Len(file)
    /\ issues = <<>>
    /\ response_cache = <<>>
    /\ logged = <<>>
    /\ \E p \in Scans : scan[p].pc = "read" /\ scan[p].current_size = Len(file)

\* the same with a new file exactly as long as the cursor: the scan has
\* ended, nothing new
ReplacedAndEqual ==
    /\ ReplacedAndGrown
    /\ Len(file) = last_position
    /\ written = Len(file)
    /\ logged = <<"No new log entries to analyze">>

\* the diagnosis _parse_response gives for a body json.loads refuses
Fallback ==
    [suggested_fix |-> FORMAT_ERROR, confidence |-> IntConf(0), details |-> ""]

\* invocation p gets a body that cannot be parsed for the candidate it
\* waits for
GarbageForCandidate(p) ==
    /\ scan[p].pc = "analyze"
    /\ ApiContent(p, GarbageBody)

\* the step starts a remote call of invocation p
RemoteCallStarts(p) == call[p].pc = "idle" /\ call'[p].pc = "api"

\* the step ends a remote call of an invocation: the first value returned
\* in the step is the one of that call, made before the step
RemoteCallEnds ==
    \E p \in Scans : call[p].pc = "api" /\ scan'[p] # scan[p]

\* the places in returned' of the analyze_log calls made in the step
LookedUp ==
    {k \in 1..Len(returned') : k > 1 \/ ~RemoteCallEnds}

AppendsIssue(p) == scan'[p].appended > scan[p].appended

\* the candidate invocation p is at is a snippet that was a candidate of
\* an earlier category of the same cycle too
SnippetSeenBefore(s) ==
    \E c \in 1..(s.ci - 1) :
        \E k \in 1..Len(Capped(s.potential[c].log_snippets)) :
            s.potential[c].log_snippets[k] = SnippetAt(s)

\* C30 (specification Spec).  The key of a candidate starts with its
\* category: a remote call is made under such a key, every key in the
\* cache starts with a category, and the diagnosis an issue is made of was
\* returned under a key that starts with the category of the issue.  The
\* key of a snippet under general-error differs from its key under the
\* specific category it was a candidate of before, so the diagnosis cached
\* for the one is not used for the other.
C30_KeyStartsWithCategory ==
    [][/\ \A i \in 1..Len(response_cache') :
             /\ response_cache'[i].key # <<>>
             /\ response_cache'[i].key[1] \in Range(_issue_patterns)
       /\ \A p \in Scans :
             scan'[p].pc = "analyze"
                => /\ call'[p].key = _generate_cache_key(SnippetAt(scan'[p]),
                                                         IssueTypeAt(scan'[p]))
                   /\ call'[p].key[1] = IssueTypeAt(scan'[p])
       /\ \A p \in Scans :
             AppendsIssue(p)
                => LET r == returned'[Len(returned')]
                       issue == issues'[Len(issues')]
                   IN  /\ r.key[1] = issue.issue_type
                       /\ r.key = _generate_cache_key(issue.log_snippet,
                                                      issue.issue_type)
                       /\ r.value # <<>>
                       /\ r.value[1].suggested_fix = issue.suggested_fix
                       /\ InCache(response_cache', r.key)
                       /\ CacheGet(response_cache', r.key) = r.value[1]
       /\ \A p \in Scans :
             (scan'[p].pc \in {"analyze", "notify"} /\ SnippetSeenBefore(scan'[p]))
                => \A c \in 1..(scan'[p].ci - 1) :
                      _generate_cache_key(SnippetAt(scan'[p]), IssueTypeAt(scan'[p]))
                         # _generate_cache_key(SnippetAt(scan'[p]),
                                               scan'[p].potential[c].issue_type)
      ]_vars

\* one cycle has made two remote calls for one snippet, under its specific
\* category and under general-error: two diagnoses are in the cache under
\* keys that differ in the category alone, and the store holds two issues
\* of the snippet
C30_Witness ==
    /\ Len(issues) = 2
    /\ issues[1].log_snippet = issues[2].log_snippet
    /\ issues[1].issue_type = ISSUE_ENTITY_UNAVAILABLE
    /\ issues[2].issue_type = ISSUE_GENERAL_ERROR
    /\ Len(response_cache) = 2
    /\ response_cache[1].key[1] = ISSUE_ENTITY_UNAVAILABLE
    /\ response_cache[2].key[1] = ISSUE_GENERAL_ERROR
    /\ Tail(response_cache[1].key) = Tail(response_cache[2].key)
    /\ \E p \in Scans :
          /\ scan[p].pc = "notify"
          /\ scan[p].invoked = 2
          /\ scan[p].appended = 2
          /\ SnippetSeenBefore(scan[p])
          /\ logged = <<>>
          /\ returned = <<[key |-> response_cache[2].key,
                           value |-> <<response_cache[2].value>>]>>
====
